---- MODULE Spec2Model ----
(***************************************************************************)
(* Remote-Control: the relay broker (src/src/server.ts, third revision,    *)
(* lines 419-653), the journal (src/src/server.ts, first revision, lines   *)
(* 1-173), the page-side response monitor (src/unnamed/part_003, lines     *)
(* 641-754), the dictation client (main.swift, lines 228-438) and the      *)
(* page client's command side (src/unnamed/part_003, lines 568-639), each  *)
(* as a state machine with its own specification.                          *)
(***************************************************************************)
EXTENDS Integers, Sequences, FiniteSets, TLC

VARIABLES
    \* ---- relay broker (src/src/server.ts:519-648) ----
    clients,      \* the Map<string, WebSocket>, in insertion order
    readyState,   \* readyState of every WebSocket object created so far
    connKey,      \* the sec-websocket-key each connection presented
    inbox,        \* frames written to each connection by client.send / ws.send
    awaiting,     \* message handlers suspended at an await
    journalLog,   \* calls of updateLogEntry (third revision: a console log)
    nConns,       \* WebSocket objects created so far
    nOps,         \* inbound frames and HTTP requests handled so far
    last,         \* the handler that ran last, and how it ended
    \* ---- journal (src/src/server.ts:102-146) ----
    logFile,      \* messages.txt: whether it exists, and its text
    updates,      \* runs of updateLogEntry suspended at an await
    done,         \* the runs that ended, in the order in which they ended
    nUpdates,     \* calls of updateLogEntry so far
    sequential,   \* no call so far was made while another run was suspended
    \* ---- response monitor (src/unnamed/part_003:641-754) ----
    paragraphs,        \* text of the paragraphs of the response element
    contentObservers,  \* content observers attached to the response element
    currentMessageId,  \* let currentMessageId (0 for null)
    lastContent,       \* let lastContent
    socketOpen,        \* socket.readyState === WebSocket.OPEN
    emitted,           \* the envelopes given to sendToServer, in order
    now,               \* Date.now()
    nNotes,            \* mutations of the page so far
    monitoredFrom,     \* the content when the first content observer was attached
    notified,          \* the mutations the observers were called for, in order
    \* ---- dictation client (src/CluadescribeCli/CluadescribeCli/main.swift:228-438) ----
    currentTranscription,   \* var currentTranscription
    lastCompletedSection,   \* var lastCompletedSection
    completedSectionCount,  \* var completedSectionCount
    recognitionTask,        \* a recognition task is running
    transcription,          \* the running task's best transcription so far
    written,                \* the messages given to socket?.write, in order
    nResults,               \* calls of the recognition handler so far
    nPieces,                \* pieces of text recognised so far, over all tasks
    handled,                \* the last call of the recognition handler
    \* ---- one publish, entry by entry (src/src/server.ts:566-572) ----
    forEachRun,             \* the clients.forEach of the publish in progress
    \* ---- page client, commands (src/unnamed/part_003:568-577, 609-639) ----
    messageInput,           \* textContent of the .ProseMirror element, or NoElement
    sendButton,             \* the "Send Message" button: absent, disabled or enabled
    clearTimers,            \* pending setTimeout callbacks of submitInputToClaude
    clicks,                 \* the input's text at each sendButton.click()
    handledCommands,        \* the command frames handled, and what each did
    \* ---- page client, send_message (src/unnamed/part_002:30-36, 68-134) ----
    inputContent,           \* textContent of the .ProseMirror element, or NoElement
    sendButtonState,        \* the "Send Message" button: absent, disabled or enabled
    checkButtonTimers,      \* the commands whose setTimeout(checkButton, 100) is pending
    buttonClicks,           \* each sendButton.click(): whose it is, the input's text then
    received,               \* the frames socket.onmessage was called with, in order
    nRenders,               \* times the page rendered its message input anew
    \* ---- Deepgram listener (src/src/listen.ts:45-119) ----
    transcriptBuffer,       \* let transcriptBuffer
    claudeWs,               \* readyState of claudeWs
    claudeSent,             \* the messages claudeWs.send returned for, in order
    heard                   \* the transcripts of the Transcript events, in order

brokerVars == <<clients, readyState, connKey, inbox, awaiting, journalLog,
                nConns, nOps, last>>

journalVars == <<logFile, updates, done, nUpdates, sequential>>

monitorVars == <<paragraphs, contentObservers, currentMessageId, lastContent,
                 socketOpen, emitted, now, nNotes, monitoredFrom, notified>>

dictationVars == <<currentTranscription, lastCompletedSection,
                   completedSectionCount, recognitionTask, transcription,
                   written, nResults, nPieces, handled>>

forEachVars == <<forEachRun>>

pageVars == <<messageInput, sendButton, clearTimers, clicks, handledCommands>>

senderVars == <<inputContent, sendButtonState, checkButtonTimers, buttonClicks,
                received, nRenders>>

listenerVars == <<transcriptBuffer, claudeWs, claudeSent, heard>>

vars == <<brokerVars, journalVars, monitorVars, dictationVars, forEachVars,
          pageVars, senderVars, listenerVars>>

----------------------------------------------------------------------------
\* Bounds of the broker model.
MaxConns == 3
MaxOps == 2

Conns == 1..MaxConns

\* sec-websocket-key values a client may present (a request header, chosen by
\* the client).  The values are opaque: they are named in the order in which
\* they first appear.
KeyNames == <<"k1", "k2", "k3", "k4", "k5">>
Keys == {KeyNames[i] : i \in 1..MaxConns}

----------------------------------------------------------------------------
\* JSON values: <<type, text>>.
Str(s) == <<"string", s>>
Num(s) == <<"number", s>>
Null == <<"null", "">>

IsString(v) == v[1] = "string"

STATE_CHANGE == "CLAUDE.STATE_CHANGE"
RESPONSE_PART_RECEIVED == "CLAUDE.RESPONSE_PART_RECEIVED"
RESPONSE_COMPLETE == "CLAUDE.RESPONSE_COMPLETE"
SEND_USER_MESSAGE == "CLAUDE.SEND_USER_MESSAGE"
SET_CURRENT_INPUT == "CLAUDE.SET_CURRENT_INPUT"
SUBMIT_CURRENT_INPUT == "CLAUDE.SUBMIT_CURRENT_INPUT"

CLAUDE_MESSAGE_TYPES ==
    {STATE_CHANGE, RESPONSE_PART_RECEIVED, RESPONSE_COMPLETE,
     SEND_USER_MESSAGE, SET_CURRENT_INPUT, SUBMIT_CURRENT_INPUT}

\* z.string().url(): the text parses as a URL.
IsUrl(v) == IsString(v) /\ v[2] \in {"https://claude.ai/chat/1"}

Has(d, f) == f \in DOMAIN d
HasString(d, f) == Has(d, f) /\ IsString(d[f])

\* The fields each member of the discriminated union requires.
ClaudeStateChangeSchema(d) ==
    /\ HasString(d, "state") /\ d["state"][2] \in {"generating", "finished"}
    /\ HasString(d, "messageId")
    /\ HasString(d, "timestamp")
    /\ Has(d, "url") /\ IsUrl(d["url"])

ClaudeResponsePartReceivedSchema(d) ==
    /\ HasString(d, "content")
    /\ HasString(d, "messageId")
    /\ HasString(d, "timestamp")
    /\ Has(d, "url") /\ IsUrl(d["url"])

ClaudeResponseCompleteSchema(d) ==
    /\ HasString(d, "content")
    /\ HasString(d, "messageId")
    /\ HasString(d, "timestamp")
    /\ Has(d, "url") /\ IsUrl(d["url"])

ClaudeSendUserMessageSchema(d) == HasString(d, "content")

ClaudeSetCurrentInputSchema(d) == HasString(d, "content")

ClaudeSubmitCurrentInputSchema(d) == TRUE

\* PayloadSchema.parse(data) succeeds.
PayloadSchemaLax(d) == Has(d, "type") /\ IsString(d["type"])

\* A schema made of strict objects (z.object(...).strict()): a key that the
\* matched member does not name fails the parse.
PayloadSchemaStrict(d) ==
    /\ HasString(d, "type")
    /\ d["type"][2] \in CLAUDE_MESSAGE_TYPES
    /\ CASE d["type"][2] = STATE_CHANGE ->
                /\ ClaudeStateChangeSchema(d)
                /\ DOMAIN d \subseteq {"type", "state", "messageId", "timestamp", "url"}
         [] d["type"][2] \in {RESPONSE_PART_RECEIVED, RESPONSE_COMPLETE} ->
                /\ ClaudeResponsePartReceivedSchema(d)
                /\ DOMAIN d \subseteq {"type", "content", "messageId", "timestamp", "url"}
         [] d["type"][2] \in {SEND_USER_MESSAGE, SET_CURRENT_INPUT} ->
                /\ HasString(d, "content")
                /\ DOMAIN d \subseteq {"type", "content"}
         [] d["type"][2] = SUBMIT_CURRENT_INPUT -> DOMAIN d \subseteq {"type"}

PayloadSchema(d) ==
    /\ HasString(d, "type")
    /\ d["type"][2] \in CLAUDE_MESSAGE_TYPES
    /\ CASE d["type"][2] = STATE_CHANGE -> ClaudeStateChangeSchema(d)
         [] d["type"][2] = RESPONSE_PART_RECEIVED -> ClaudeResponsePartReceivedSchema(d)
         [] d["type"][2] = RESPONSE_COMPLETE -> ClaudeResponseCompleteSchema(d)
         [] d["type"][2] = SEND_USER_MESSAGE -> ClaudeSendUserMessageSchema(d)
         [] d["type"][2] = SET_CURRENT_INPUT -> ClaudeSetCurrentInputSchema(d)
         [] d["type"][2] = SUBMIT_CURRENT_INPUT -> ClaudeSubmitCurrentInputSchema(d)

\* The fields the matched schema keeps (z.object strips unknown keys).
SchemaFields(t) ==
    CASE t = STATE_CHANGE -> {"type", "state", "messageId", "timestamp", "url"}
      [] t \in {RESPONSE_PART_RECEIVED, RESPONSE_COMPLETE} ->
            {"type", "content", "messageId", "timestamp", "url"}
      [] t \in {SEND_USER_MESSAGE, SET_CURRENT_INPUT} -> {"type", "content"}
      [] OTHER -> {"type"}

ParsedPayload(d) ==
    [f \in (DOMAIN d) \cap SchemaFields(d["type"][2]) |-> d[f]]

----------------------------------------------------------------------------
\* Frames a session may put on its socket.  Each is the text of one WebSocket
\* message: either not JSON at all, or a JSON object (field -> value).
NotJson == [json |-> FALSE, data |-> [f \in {} |-> Null]]
Json(d) == [json |-> TRUE, data |-> d]

Ts == Str("Monday, 10:00:00 AM")
Url == Str("https://claude.ai/chat/1")

RawFrames == <<
    \* frames the clients of this repository send
    Json([type |-> Str(STATE_CHANGE), state |-> Str("generating"),
          messageId |-> Str("m1"), timestamp |-> Ts, url |-> Url]),
    Json([type |-> Str(SEND_USER_MESSAGE), content |-> Str("hi"),
          isUser |-> <<"boolean", "true">>, timestamp |-> Ts, url |-> Url]),
    \* frames that do not match the schema
    Json([type |-> Str(RESPONSE_PART_RECEIVED), content |-> Str("Hello"),
          messageId |-> Null, timestamp |-> Ts, url |-> Url]),
    Json([type |-> Str(RESPONSE_PART_RECEIVED), content |-> Str("Hello"),
          timestamp |-> Ts, url |-> Url]),
    Json([type |-> Str(STATE_CHANGE), state |-> Str("paused"),
          messageId |-> Str("m1"), timestamp |-> Ts, url |-> Url]),
    Json([type |-> Str(STATE_CHANGE), state |-> Str("finished"),
          messageId |-> Str("m1"), url |-> Url]),
    Json([type |-> Str(STATE_CHANGE), state |-> Str("finished"),
          messageId |-> Str("m1"), timestamp |-> Ts, url |-> Str("chat/1")]),
    Json([type |-> Str(SET_CURRENT_INPUT), content |-> Num("5")]),
    Json([type |-> Str("send_message"), content |-> Str("hi")]),
    Json([content |-> Str("hi")]),
    NotJson >>

ErrorFrame == [error |-> Str("Invalid message format")]

----------------------------------------------------------------------------
\* The Map<string, WebSocket> as a sequence of entries in insertion order.
MapHas(m, id) == \E k \in 1..Len(m) : m[k].id = id

MapIndex(m, id) == CHOOSE k \in 1..Len(m) : m[k].id = id

\* clients.set(id, ws): a present key keeps its place and takes the new value.
MapSet(m, id, ws) ==
    IF MapHas(m, id)
    THEN [m EXCEPT ![MapIndex(m, id)] = [id |-> id, ws |-> ws]]
    ELSE Append(m, [id |-> id, ws |-> ws])

MapDeleteNothing(m, id) == m

\* clients.delete(id)
MapDelete(m, id) == SelectSeq(m, LAMBDA e : e.id # id)

\* A lookup that finds the first entry of the Map whatever the id.
MapGetFirst(m, id) == IF Len(m) > 0 THEN m[1].ws ELSE 0

\* clients.get(id): 0 stands for undefined.
MapGet(m, id) == IF MapHas(m, id) THEN m[MapIndex(m, id)].ws ELSE 0

Registered(c) == \E k \in 1..Len(clients) : clients[k].ws = c

\* A send that writes the frame to every open connection.
clientSendToAll(box, client, item) ==
    [c \in Conns |-> IF readyState[c] = "OPEN" THEN Append(box[c], item)
                     ELSE box[c]]

\* client.send(frame): the frame is written to that connection.
clientSend(box, client, item) == [box EXCEPT ![client] = Append(@, item)]

\* A catch block that unregisters the sender of the frame.
CaughtValidationErrorUnregisters(m, clientId) == MapDelete(m, clientId)

\* The catch block of processWebSocketMessage: the error is logged, the
\* registry is left as it is.
CaughtValidationError(m, clientId) == m

\* clients.forEach((client, id) => { if (id !== clientId && client.readyState
\* === OPEN) client.send(payloadString) }), from entry k on.  The failAt-th
\* call of client.send throws (0: none does); a throw leaves the forEach.
RECURSIVE ForEachSend(_, _, _, _, _, _, _)
ForEachSend(m, k, clientId, item, box, calls, failAt) ==
    IF k > Len(m)
    THEN [box |-> box, threw |-> FALSE]
    ELSE IF m[k].id # clientId /\ readyState[m[k].ws] = "OPEN"
         THEN IF calls + 1 = failAt
              THEN [box |-> box, threw |-> TRUE]
              ELSE ForEachSend(m, k + 1, clientId, item,
                               clientSend(box, m[k].ws, item),
                               calls + 1, failAt)
         ELSE ForEachSend(m, k + 1, clientId, item, box, calls, failAt)

\* How many calls of client.send that forEach makes when none throws.
SendCalls(m, clientId) ==
    Len(SelectSeq(m, LAMBDA e : e.id # clientId /\ readyState[e.ws] = "OPEN"))

\* The statements of processWebSocketMessage after validation, in source
\* order: the forEach of sends, then `await updateLogEntry(...)`.
HandlerBodyAwaitFirst == <<"awaitUpdateLogEntry", "forEachSend">>

HandlerBody == <<"forEachSend", "awaitUpdateLogEntry">>

\* last: op, the handler; c, the connection it ran for (the sender of a frame,
\* the target of a unicast; 0: none); id, the clientId it used; result, how it
\* ended; escaped, whether an exception left the handler; status, the HTTP
\* status answered (0: none).
NoOp == [op |-> "init", c |-> 0, id |-> "", result |-> "", escaped |-> FALSE,
         status |-> 0]

BrokerInit ==
    /\ clients = <<>>
    /\ readyState = [c \in Conns |-> "NONE"]
    /\ connKey = [c \in Conns |-> ""]
    /\ inbox = [c \in Conns |-> <<>>]
    /\ awaiting = {}
    /\ journalLog = <<>>
    /\ nConns = 0
    /\ nOps = 0
    /\ last = NoOp

\* wss.on("connection"): the id is the sec-websocket-key request header.
UsedKeys == {connKey[c] : c \in 1..nConns}

OnConnection(key) ==
    /\ nConns < MaxConns
    /\ key \in UsedKeys \cup {KeyNames[Cardinality(UsedKeys) + 1]}
    /\ LET ws == nConns + 1 IN
        /\ nConns' = ws
        /\ readyState' = [readyState EXCEPT ![ws] = "OPEN"]
        /\ connKey' = [connKey EXCEPT ![ws] = key]
        /\ clients' = MapSet(clients, key, ws)
        /\ last' = [NoOp EXCEPT !.op = "connection"]
    /\ UNCHANGED <<inbox, awaiting, journalLog, nOps>>

\* The connection starts closing: its readyState is no longer OPEN, its
\* close event has not been emitted yet.
BeginClose(ws) ==
    /\ readyState[ws] = "OPEN"
    /\ readyState' = [readyState EXCEPT ![ws] = "CLOSING"]
    /\ last' = [NoOp EXCEPT !.op = "closing"]
    /\ UNCHANGED <<clients, connKey, inbox, awaiting, journalLog, nConns, nOps>>

\* ws.on("close")
OnClose(ws) ==
    /\ readyState[ws] \in {"OPEN", "CLOSING"}
    /\ readyState' = [readyState EXCEPT ![ws] = "CLOSED"]
    /\ clients' = MapDelete(clients, connKey[ws])
    /\ last' = [NoOp EXCEPT !.op = "close"]
    /\ UNCHANGED <<connKey, inbox, awaiting, journalLog, nConns, nOps>>

\* One frame as a session's socket receives it: the stringified data, and the
\* number of the handler that sent it.
Item(n, data) == [n |-> n, data |-> data]

\* The connections the forEach of a publish by clientId calls send on when
\* no send throws: the entries under another id whose socket is OPEN.
Destinations(m, clientId) ==
    {m[k].ws : k \in {j \in 1..Len(m) : m[j].id # clientId /\ readyState[m[j].ws] = "OPEN"}}

\* A suspended run of the async message handler, at statement pc of HandlerBody;
\* dests, the destinations when the handler started.
Suspended(n, ws, data, pc) ==
    [n |-> n, ws |-> ws, clientId |-> connKey[ws], data |-> data, pc |-> pc,
     dests |-> Destinations(clients, connKey[ws])]

\* ws.on("message") with processWebSocketMessage, up to its first await.
\* frame: the index of the text received; failAt: which call of send throws.
OnMessage(ws, frame, failAt) ==
    /\ readyState[ws] \in {"OPEN", "CLOSING"}
    /\ nOps < MaxOps
    /\ nOps' = nOps + 1
    /\ LET n == nOps + 1
           raw == RawFrames[frame]
           data == raw.data
           clientId == connKey[ws]
       IN
        IF ~raw.json
        THEN \* JSON.parse throws: catch, ws.send({error}) with no readyState test
            /\ failAt \in {0, 1}
            /\ inbox' = IF readyState[ws] = "OPEN" /\ failAt # 1
                        THEN clientSend(inbox, ws, Item(n, ErrorFrame))
                        ELSE inbox
            /\ last' = [NoOp EXCEPT !.op = "message", !.c = ws, !.id = clientId,
                                    !.result = "notJson", !.escaped = (failAt = 1)]
            /\ UNCHANGED <<awaiting, journalLog>>
        ELSE IF ~PayloadSchema(data)
        THEN \* ZodError: caught and logged
            /\ failAt = 0
            /\ last' = [NoOp EXCEPT !.op = "message", !.c = ws, !.id = clientId,
                                    !.result = "invalid"]
            /\ UNCHANGED <<inbox, awaiting, journalLog>>
        ELSE IF HandlerBody[1] = "forEachSend"
        THEN LET r == ForEachSend(clients, 1, clientId, Item(n, data), inbox, 0, failAt) IN
            /\ failAt <= SendCalls(clients, clientId)
            /\ inbox' = r.box
            /\ last' = [NoOp EXCEPT !.op = "message", !.c = ws, !.id = clientId,
                                    !.result = IF r.threw THEN "sendThrew" ELSE "sent"]
            /\ IF r.threw
               THEN UNCHANGED <<awaiting, journalLog>>
               ELSE /\ journalLog' = Append(journalLog,
                            [n |-> n, clientId |-> clientId, payload |-> ParsedPayload(data)])
                    /\ awaiting' = awaiting \cup {Suspended(n, ws, data, 2)}
        ELSE
            /\ failAt = 0
            /\ journalLog' = Append(journalLog,
                    [n |-> n, clientId |-> clientId, payload |-> ParsedPayload(data)])
            /\ awaiting' = awaiting \cup {Suspended(n, ws, data, 1)}
            /\ last' = [NoOp EXCEPT !.op = "message", !.c = ws, !.id = clientId,
                                    !.result = "suspended"]
            /\ UNCHANGED inbox
    /\ clients' = IF RawFrames[frame].json /\ ~PayloadSchema(RawFrames[frame].data)
                  THEN CaughtValidationError(clients, connKey[ws])
                  ELSE clients
    /\ UNCHANGED <<readyState, connKey, nConns>>

\* The awaited updateLogEntry promise settles and the handler runs on.
\* journalFails: the journal read or write failed.  The first revision's
\* updateLogEntry catches and logs it; a rejected promise makes the await
\* throw into the catch of processWebSocketMessage, which logs it and skips
\* the statements after the await.
Resume(h, failAt, journalFails) ==
    /\ h \in awaiting
    /\ awaiting' = awaiting \ {h}
    /\ IF journalFails
       THEN /\ failAt = 0
            /\ last' = [NoOp EXCEPT !.op = "resume", !.c = h.ws, !.id = h.clientId,
                                    !.result = "journalFailed"]
            /\ UNCHANGED inbox
       ELSE IF h.pc < Len(HandlerBody) /\ HandlerBody[h.pc + 1] = "forEachSend"
       THEN LET r == ForEachSend(clients, 1, h.clientId, Item(h.n, h.data), inbox, 0, failAt) IN
            /\ failAt <= SendCalls(clients, h.clientId)
            /\ inbox' = r.box
            /\ last' = [NoOp EXCEPT !.op = "resume", !.c = h.ws, !.id = h.clientId,
                                    !.result = IF r.threw THEN "sendThrew" ELSE "sent"]
       ELSE /\ failAt = 0
            /\ UNCHANGED <<inbox, last>>
    /\ UNCHANGED <<clients, readyState, connKey, journalLog, nConns, nOps>>

\* A field of req.body that is not there.
Absent == "<undefined>"

\* A test that lets the empty string pass.
FalsyWhenAbsent(x) == x = Absent

\* !x for a JSON string or undefined
Falsy(x) == x = Absent \/ x = ""

\* app.post("/api/send-message")
ApiSendMessage(message, clientId, sendThrows) ==
    /\ nOps < MaxOps
    /\ nOps' = nOps + 1
    /\ LET n == nOps + 1
           payload == [type |-> Str(SEND_USER_MESSAGE), content |-> Str(message)]
           client == MapGet(clients, clientId)
       IN
        IF Falsy(message)
        THEN /\ ~sendThrows
             /\ last' = [NoOp EXCEPT !.op = "http", !.id = clientId,
                                     !.result = "messageRequired", !.status = 400]
             /\ UNCHANGED inbox
        ELSE IF Falsy(clientId)
        THEN /\ ~sendThrows
             /\ last' = [NoOp EXCEPT !.op = "http", !.id = clientId,
                                     !.result = "clientIdRequired", !.status = 400]
             /\ UNCHANGED inbox
        ELSE IF client # 0 /\ readyState[client] = "OPEN"
        THEN IF sendThrows
             THEN \* the throw leaves the route handler: express answers 500
                  /\ last' = [NoOp EXCEPT !.op = "http", !.c = client, !.id = clientId,
                                          !.result = "sendThrew", !.escaped = TRUE,
                                          !.status = 500]
                  /\ UNCHANGED inbox
             ELSE /\ inbox' = clientSend(inbox, client, Item(n, payload))
                  /\ last' = [NoOp EXCEPT !.op = "http", !.c = client, !.id = clientId,
                                          !.result = "sent", !.status = 200]
        ELSE /\ ~sendThrows
             /\ last' = [NoOp EXCEPT !.op = "http", !.id = clientId,
                                     !.result = "notFound", !.status = 404]
             /\ UNCHANGED inbox
    /\ UNCHANGED <<clients, readyState, connKey, awaiting, journalLog, nConns>>

HttpMessages == {Absent, "", "hi"}
HttpClientIds == {Absent} \cup Keys

----------------------------------------------------------------------------
\* The forEach of a publish (src/src/server.ts:566-572), one entry at a time.
\* clients.forEach walks the Map itself, in insertion order: an entry set
\* while the walk is on is visited when the walk reaches it, an entry deleted
\* before the walk reaches it is not visited, and deleting an entry leaves
\* the walk at the same next entry.  A handler that a call of send runs
\* before it returns finds and changes the same Map.

\* forEachRun: active, a walk is on; c and clientId, the sender and its id;
\* n and data, the handler and the data it stringifies; at, the index in
\* clients of the next entry to visit; start, the destinations when the walk
\* began; sent, the connections send was called on; inSend, the walk is in a
\* call of send; threw, a send threw.
NoForEach == [active |-> FALSE, c |-> 0, clientId |-> "", n |-> 0, data |-> <<>>,
              at |-> 0, start |-> {}, sent |-> {}, inSend |-> FALSE,
              threw |-> FALSE]

\* A connection or close handler can run: no walk is on, or the walk is in a
\* call of send.
HandlersMayRun == forEachRun.active => forEachRun.inSend

ForEachInit == forEachRun = NoForEach

\* The frames that pass validation.
ValidFrames == {f \in 1..Len(RawFrames) :
                    RawFrames[f].json /\ PayloadSchema(RawFrames[f].data)}

\* ws.on("message") for a valid frame, up to the call of clients.forEach.
ForEachBegins(ws, frame) ==
    /\ ~forEachRun.active
    /\ readyState[ws] \in {"OPEN", "CLOSING"}
    /\ frame \in ValidFrames
    /\ nOps < MaxOps
    /\ nOps' = nOps + 1
    /\ forEachRun' = [active |-> TRUE, c |-> ws, clientId |-> connKey[ws],
                      n |-> nOps + 1, data |-> RawFrames[frame].data, at |-> 1,
                      start |-> Destinations(clients, connKey[ws]),
                      sent |-> {}, inSend |-> FALSE, threw |-> FALSE]
    /\ last' = [NoOp EXCEPT !.op = "message", !.c = ws, !.id = connKey[ws],
                            !.result = "forEach"]
    /\ UNCHANGED <<clients, readyState, connKey, inbox, awaiting, journalLog, nConns>>

\* The callback of clients.forEach for the next entry of the Map; after the
\* last entry, `await updateLogEntry(clientId, payload)`.  throws: the call of
\* client.send throws, which leaves the forEach for the catch.
ForEachVisits(throws) ==
    /\ forEachRun.active
    /\ LET r == forEachRun
           k == r.at
       IN
        IF k > Len(clients)
        THEN /\ ~throws
             /\ forEachRun' = [r EXCEPT !.active = FALSE, !.inSend = FALSE]
             /\ journalLog' = Append(journalLog,
                    [n |-> r.n, clientId |-> r.clientId, payload |-> ParsedPayload(r.data)])
             /\ awaiting' = awaiting \cup
                    {[n |-> r.n, ws |-> r.c, clientId |-> r.clientId, data |-> r.data,
                      pc |-> 2, dests |-> r.start]}
             /\ last' = [NoOp EXCEPT !.op = "message", !.c = r.c, !.id = r.clientId,
                                     !.result = "sent"]
             /\ UNCHANGED inbox
        ELSE IF clients[k].id # r.clientId /\ readyState[clients[k].ws] = "OPEN"
        THEN IF throws
             THEN /\ forEachRun' = [r EXCEPT !.active = FALSE, !.inSend = FALSE,
                                             !.threw = TRUE]
                  /\ last' = [NoOp EXCEPT !.op = "message", !.c = r.c, !.id = r.clientId,
                                          !.result = "sendThrew"]
                  /\ UNCHANGED <<inbox, awaiting, journalLog>>
             ELSE /\ inbox' = clientSend(inbox, clients[k].ws, Item(r.n, r.data))
                  /\ forEachRun' = [r EXCEPT !.at = k + 1, !.inSend = TRUE,
                                             !.sent = @ \cup {clients[k].ws}]
                  /\ UNCHANGED <<awaiting, journalLog, last>>
        ELSE /\ ~throws
             /\ forEachRun' = [r EXCEPT !.at = k + 1, !.inSend = FALSE]
             /\ UNCHANGED <<inbox, awaiting, journalLog, last>>
    /\ UNCHANGED <<clients, readyState, connKey, nConns, nOps>>

\* The walk after clients.delete(id): the entries after the deleted one move
\* up by one, and so does the next entry to visit when it is one of them.
AfterDelete(r, m, id) ==
    IF r.active /\ MapHas(m, id) /\ MapIndex(m, id) < r.at
    THEN [r EXCEPT !.at = @ - 1]
    ELSE r

----------------------------------------------------------------------------
\* The journal: updateLogEntry and formatLogEntry of the first revision
\* (src/src/server.ts:102-146), which keeps messages.txt.  A text is a
\* sequence of tokens: NL is one newline, every other token is a run of
\* characters without a newline.

\* Bound of the journal model: calls of updateLogEntry.
MaxUpdates == 3

NL == "\n"

\* The timestamp the sender put on the envelope of the n-th call.
TsNames == <<"t1", "t2", "t3", "t4", "t5">>
TsOf(n) == TsNames[n]

\* The text `MessageID: ${messageId}`.
Marker(messageId) ==
    CASE messageId = "m1" -> "MessageID: m1"
      [] messageId = "m2" -> "MessageID: m2"
      [] OTHER -> "MessageID: "

\* Payloads that pass the first revision's PayloadSchema and are journaled
\* (messageId "" stands for an absent messageId).
JournalPayloads == {
    [type |-> "claude_state", state |-> "generating", content |-> <<>>,
     messageId |-> "m1", isUser |-> FALSE],
    [type |-> "claude_state", state |-> "finished", content |-> <<>>,
     messageId |-> "m1", isUser |-> FALSE],
    [type |-> "message", state |-> "", content |-> <<"Hello">>,
     messageId |-> "m1", isUser |-> FALSE],
    [type |-> "message", state |-> "", content |-> <<"one", NL, NL, "two">>,
     messageId |-> "", isUser |-> TRUE],
    [type |-> "message", state |-> "", content |-> <<"see", "MessageID: m1">>,
     messageId |-> "m2", isUser |-> FALSE] }

\* formatLogEntry(payload), the payload carrying timestamp ts
formatLogEntry(payload, ts) ==
    LET header == <<ts, NL, "From: https://claude.ai/chat/1", NL>>
        content ==
            CASE payload.type = "claude_state" ->
                    <<IF payload.state = "generating"
                      THEN "Claude state: generating"
                      ELSE "Claude state: finished", NL>>
              [] payload.type = "message" ->
                    <<IF payload.isUser THEN "User: " ELSE "Claude: ">>
                        \o payload.content \o <<NL>>
              [] OTHER -> <<"Sending to Claude: ">> \o payload.content \o <<NL>>
    IN header \o content \o <<NL>>

\* text.split("\n\n"): the pieces between successive, non-overlapping
\* occurrences of two newlines, scanning from the left.
RECURSIVE SplitFrom(_, _, _, _)
SplitFrom(text, i, piece, pieces) ==
    IF i > Len(text)
    THEN Append(pieces, piece)
    ELSE IF text[i] = NL /\ i < Len(text) /\ text[i + 1] = NL
         THEN SplitFrom(text, i + 2, <<>>, Append(pieces, piece))
         ELSE SplitFrom(text, i + 1, Append(piece, text[i]), pieces)

Split(text) == SplitFrom(text, 1, <<>>, <<>>)

\* entries.join("\n\n")
RECURSIVE Join(_)
Join(entries) ==
    IF Len(entries) = 0 THEN <<>>
    ELSE IF Len(entries) = 1 THEN entries[1]
    ELSE entries[1] \o <<NL, NL>> \o Join(Tail(entries))

\* entry.includes(token)
Includes(entry, token) == \E i \in 1..Len(entry) : entry[i] = token

\* entries.findIndex(entry => entry.includes(`MessageID: ${messageId}`)),
\* 0 standing for -1.
FindIndex(entries, messageId) ==
    IF \E k \in 1..Len(entries) : Includes(entries[k], Marker(messageId))
    THEN CHOOSE k \in 1..Len(entries) :
            /\ Includes(entries[k], Marker(messageId))
            /\ \A j \in 1..(k - 1) : ~Includes(entries[j], Marker(messageId))
    ELSE 0

\* The text updateLogEntry writes back, having read logContent.
NewLogContent(logContent, payload, ts) ==
    LET entries == Split(logContent)
        index == FindIndex(entries, payload.messageId)
        updated ==
            IF payload.messageId # ""
            THEN IF index # 0
                 THEN [entries EXCEPT ![index] = formatLogEntry(payload, ts)]
                 ELSE Append(entries, formatLogEntry(payload, ts))
            ELSE Append(entries, formatLogEntry(payload, ts))
    IN Join(updated)

\* The place among the pieces of text of the one that holds ts (0: none).
EntryIndex(text, ts) ==
    LET entries == Split(text) IN
    IF \E k \in 1..Len(entries) : Includes(entries[k], ts)
    THEN CHOOSE k \in 1..Len(entries) : Includes(entries[k], ts)
    ELSE 0

JournalInit ==
    /\ logFile \in {[exists |-> FALSE, text |-> <<>>], [exists |-> TRUE, text |-> <<>>]}
    /\ updates = {}
    /\ done = <<>>
    /\ nUpdates = 0
    /\ sequential = TRUE

\* updateLogEntry(payload) is called and awaits fs.readFile.
UpdateLogEntry(payload) ==
    /\ nUpdates < MaxUpdates
    /\ nUpdates' = nUpdates + 1
    /\ updates' = updates \cup
            {[n |-> nUpdates + 1, payload |-> payload, pc |-> "readFile", out |-> <<>>]}
    /\ sequential' = (sequential /\ updates = {})
    /\ UNCHANGED <<logFile, done>>

\* fs.readFile settles: with the file's text, and the run goes on to
\* fs.writeFile; or with ENOENT, which the catch logs.
ReadFileSettles(u) ==
    /\ u \in updates
    /\ u.pc = "readFile"
    /\ IF logFile.exists
       THEN /\ updates' = (updates \ {u}) \cup
                    {[u EXCEPT !.pc = "writeFile",
                               !.out = NewLogContent(logFile.text, u.payload, TsOf(u.n))]}
            /\ UNCHANGED done
       ELSE /\ updates' = updates \ {u}
            /\ done' = Append(done, [n |-> u.n, payload |-> u.payload,
                                     outcome |-> "readFailed", index |-> 0])
    /\ UNCHANGED <<logFile, nUpdates, sequential>>

\* fs.writeFile settles: the file holds the text the run computed.
WriteFileSettles(u) ==
    /\ u \in updates
    /\ u.pc = "writeFile"
    /\ logFile' = [exists |-> TRUE, text |-> u.out]
    /\ updates' = updates \ {u}
    /\ done' = Append(done, [n |-> u.n, payload |-> u.payload,
                             outcome |-> "written", index |-> EntryIndex(u.out, TsOf(u.n))])
    /\ UNCHANGED <<nUpdates, sequential>>

----------------------------------------------------------------------------
\* The response monitor of the page client (src/unnamed/part_003:641-754).
\* isGenerating (649, 669-676) is only logged and is left out.

\* Bounds of the monitor model.
MaxNotes == 5
MaxLen == 4
MaxNow == 2

\* Pieces of text the page appends to a paragraph.
Words == {"Hello", " world"}

NoMessageId == 0

\* Array.from(paragraphs).map((p) => p.textContent).join("\n\n")
Content(ps) == Join(ps)

\* sendToServer(data): the envelope goes out only on an open socket.
sendToServer(out, data, open) == Append(out, [envelope |-> data, sent |-> open])

StateChange(state, messageId) ==
    [type |-> STATE_CHANGE, state |-> state, messageId |-> messageId,
     timestamp |-> Ts, url |-> Url]

ResponsePart(content, messageId) ==
    [type |-> RESPONSE_PART_RECEIVED, content |-> content,
     messageId |-> messageId, timestamp |-> Ts, url |-> Url]

\* A content observer that sends a changed content and does not keep it.
contentObserverForgets(st, content, messageId, open) ==
    IF content # st.lastContent
    THEN [lastContent |-> st.lastContent,
          out |-> sendToServer(st.out, ResponsePart(content, messageId), open)]
    ELSE st

\* One run of a content observer's callback; st holds lastContent and the
\* envelopes sent so far.
contentObserver(st, content, messageId, open) ==
    IF content # st.lastContent
    THEN [lastContent |-> content,
          out |-> sendToServer(st.out, ResponsePart(content, messageId), open)]
    ELSE st

\* Every content observer attached to the element runs on a mutation of it.
RECURSIVE RunContentObservers(_, _, _, _, _)
RunContentObservers(k, st, content, messageId, open) ==
    IF k = 0 THEN st
    ELSE RunContentObservers(k - 1, contentObserver(st, content, messageId, open),
                             content, messageId, open)

\* What an observer's callback finds: the chat observer the response element
\* and its data-is-streaming attribute, a content observer the element's text.
ChatNote(isStreaming) ==
    [kind |-> "chat", isStreaming |-> isStreaming, content |-> <<>>]

ContentNote(content) ==
    [kind |-> "content", isStreaming |-> FALSE, content |-> content]

\* The chat observer finds a response element it has not seen before.
ResponseNote(isStreaming) ==
    [kind |-> "response", isStreaming |-> isStreaming, content |-> <<>>]

MonitorInit ==
    /\ paragraphs = <<>>
    /\ contentObservers = 0
    /\ currentMessageId = NoMessageId
    /\ lastContent = <<>>
    /\ socketOpen = FALSE
    /\ emitted = <<>>
    /\ now = 1
    /\ nNotes = 0
    /\ monitoredFrom = <<>>
    /\ notified = <<>>

\* The chat container's observer sees an added node that holds the response
\* element, whose data-is-streaming attribute reads isStreaming, at time t.
ChatMutation(isStreaming, t) ==
    /\ nNotes < MaxNotes
    /\ t >= now
    /\ nNotes' = nNotes + 1
    /\ now' = t
    /\ IF isStreaming /\ currentMessageId = NoMessageId
       THEN /\ currentMessageId' = t
            /\ emitted' = sendToServer(emitted, StateChange("generating", t), socketOpen)
       ELSE IF ~isStreaming /\ currentMessageId # NoMessageId
            THEN /\ emitted' = sendToServer(emitted,
                                    StateChange("finished", currentMessageId), socketOpen)
                 /\ currentMessageId' = NoMessageId
            ELSE UNCHANGED <<currentMessageId, emitted>>
    /\ contentObservers' = contentObservers + 1
    /\ monitoredFrom' = IF contentObservers = 0 THEN Content(paragraphs)
                        ELSE monitoredFrom
    /\ notified' = Append(notified, ChatNote(isStreaming))
    /\ UNCHANGED <<paragraphs, lastContent, socketOpen>>

\* The chat container's observer sees an added node that holds a response
\* element the page has just made for the next response: the element has no
\* text yet and no content observer but the one attached now; the observers
\* of the elements before stay with those, which change no more.
ResponseAdded(isStreaming, t) ==
    /\ nNotes < MaxNotes
    /\ t >= now
    /\ contentObservers > 0
    /\ nNotes' = nNotes + 1
    /\ now' = t
    /\ IF isStreaming /\ currentMessageId = NoMessageId
       THEN /\ currentMessageId' = t
            /\ emitted' = sendToServer(emitted, StateChange("generating", t), socketOpen)
       ELSE IF ~isStreaming /\ currentMessageId # NoMessageId
            THEN /\ emitted' = sendToServer(emitted,
                                    StateChange("finished", currentMessageId), socketOpen)
                 /\ currentMessageId' = NoMessageId
            ELSE UNCHANGED <<currentMessageId, emitted>>
    /\ paragraphs' = <<>>
    /\ contentObservers' = 1
    /\ monitoredFrom' = <<>>
    /\ notified' = Append(notified, ResponseNote(isStreaming))
    /\ UNCHANGED <<lastContent, socketOpen>>

\* What a mutation of the response element does to its paragraphs: text is
\* appended to the last paragraph, a paragraph is added, or the text stays.
Mutated(ps, kind, w) ==
    CASE kind = "text" -> [ps EXCEPT ![Len(ps)] = Append(@, w)]
      [] kind = "paragraph" -> Append(ps, <<w>>)
      [] OTHER -> ps

MutationKinds == {"text", "paragraph", "attribute"}

\* The response element changes; its content observers, if any, run.
ContentMutation(kind, w) ==
    LET ps == Mutated(paragraphs, kind, w)
        content == Content(ps)
        st == RunContentObservers(contentObservers,
                                  [lastContent |-> lastContent, out |-> emitted],
                                  content, currentMessageId, socketOpen)
    IN /\ nNotes < MaxNotes
       /\ kind = "text" => Len(paragraphs) > 0
       /\ Len(content) <= MaxLen
       /\ nNotes' = nNotes + 1
       /\ paragraphs' = ps
       /\ lastContent' = st.lastContent
       /\ emitted' = st.out
       /\ notified' = IF contentObservers > 0
                      THEN Append(notified, ContentNote(content))
                      ELSE notified
       /\ UNCHANGED <<contentObservers, currentMessageId, socketOpen, now,
                      monitoredFrom>>

\* socket.onopen
SocketOpens ==
    /\ ~socketOpen
    /\ socketOpen' = TRUE
    /\ UNCHANGED <<paragraphs, contentObservers, currentMessageId, lastContent,
                   emitted, now, nNotes, monitoredFrom, notified>>

\* socket.onclose; connectWebSocket runs again five seconds later.
SocketCloses ==
    /\ socketOpen
    /\ socketOpen' = FALSE
    /\ UNCHANGED <<paragraphs, contentObservers, currentMessageId, lastContent,
                   emitted, now, nNotes, monitoredFrom, notified>>

----------------------------------------------------------------------------
\* The dictation client (src/CluadescribeCli/CluadescribeCli/main.swift,
\* second revision, lines 228-438).  A text is a sequence of pieces; the
\* trigger word is one piece, in one of its letter-casings.

\* Bounds of the dictation model.
MaxPieces == 5
MaxResults == 2

Space == " "
Pieces == {"book a flight", "tomorrow", Space, "jinx", "JINX"}

\* Every text of at most n pieces.
RECURSIVE TextsUpTo(_)
TextsUpTo(n) ==
    IF n = 0 THEN {<<>>}
    ELSE LET shorter == TextsUpTo(n - 1)
         IN shorter \cup {Append(t, p) : t \in {u \in shorter : Len(u) = n - 1},
                                         p \in Pieces}

\* What the running task may add to its transcription with its next result.
Additions ==
    IF recognitionTask /\ nResults < MaxResults
    THEN TextsUpTo(MaxPieces - nPieces)
    ELSE {}

\* String.lowercased()
lowercased(text) ==
    [i \in 1..Len(text) |-> IF text[i] = "JINX" THEN "jinx" ELSE text[i]]

\* String.contains(_:)
contains(text, piece) == \E i \in 1..Len(text) : text[i] = piece

\* String.components(separatedBy:): the texts between the occurrences of the
\* separator, which is matched as it is written.
RECURSIVE componentsFrom(_, _, _, _, _)
componentsFrom(text, separator, i, component, components) ==
    IF i > Len(text)
    THEN Append(components, component)
    ELSE IF text[i] = separator
         THEN componentsFrom(text, separator, i + 1, <<>>,
                             Append(components, component))
         ELSE componentsFrom(text, separator, i + 1,
                             Append(component, text[i]), components)

components(text, separator) == componentsFrom(text, separator, 1, <<>>, <<>>)

\* Sequence.joined(separator:)
RECURSIVE joined(_, _)
joined(texts, separator) ==
    IF Len(texts) = 0 THEN <<>>
    ELSE IF Len(texts) = 1 THEN texts[1]
    ELSE texts[1] \o <<separator>> \o joined(Tail(texts), separator)

\* String.trimmingCharacters(in: .whitespacesAndNewlines)
RECURSIVE trimmingCharacters(_)
trimmingCharacters(text) ==
    IF Len(text) = 0 THEN text
    ELSE IF text[1] = Space THEN trimmingCharacters(Tail(text))
    ELSE IF text[Len(text)] = Space
         THEN trimmingCharacters(SubSeq(text, 1, Len(text) - 1))
    ELSE text

\* String.range(of:): where the first occurrence of part in text begins,
\* 0 for nil.
rangeOf(text, part) ==
    LET starts == {i \in 1..(Len(text) - Len(part) + 1) :
                        SubSeq(text, i, i + Len(part) - 1) = part}
    IN IF starts = {} THEN 0
       ELSE CHOOSE i \in starts : \A j \in starts : i <= j

\* setInputInClaude, submitInputToClaude and sendTranscriptionToClaude, as the
\* messages they give to sendToWebSocket.
setInputInClaude(out, text) ==
    Append(out, [type |-> "set_input", content |-> text])

submitInputToClaude(out) ==
    Append(out, [type |-> "submit_input", content |-> <<>>])

sendTranscriptionToClaude(out, text) ==
    submitInputToClaude(setInputInClaude(out, text))

\* sendToWebSocket(message): the JSON object the dictation client writes to its
\* socket (JSONSerialization of the dictionary: "submit_input" has the one
\* key "type").
sendToWebSocket(message) ==
    IF message.type = "set_input"
    THEN [type |-> Str(message.type), content |-> Str(message.content)]
    ELSE [type |-> Str(message.type)]

\* What processCurrentTranscriptionSection does to the client's variables and
\* the messages written; st holds them.
processCurrentTranscriptionSection(st, fullTranscription) ==
    LET range == rangeOf(fullTranscription, st.lastCompletedSection)
        currentTranscriptionSection ==
            IF st.lastCompletedSection = <<>>
            THEN fullTranscription
            ELSE SubSeq(fullTranscription,
                        range + Len(st.lastCompletedSection),
                        Len(fullTranscription))
        sections == components(currentTranscriptionSection, "jinx")
        completedSection == trimmingCharacters(sections[1])
    IN IF st.lastCompletedSection # <<>> /\ range = 0
       THEN st
       ELSE IF contains(lowercased(currentTranscriptionSection), "jinx")
            THEN IF completedSection # <<>>
                 THEN [written |-> sendTranscriptionToClaude(st.written,
                                                             completedSection),
                       lastCompletedSection |->
                            joined(SubSeq(components(fullTranscription, "jinx"),
                                          1, st.completedSectionCount + 1),
                                   "jinx") \o <<"jinx">>,
                       completedSectionCount |-> st.completedSectionCount + 1,
                       currentTranscription |->
                            trimmingCharacters(joined(Tail(sections), "jinx"))]
                 ELSE st
            ELSE LET rest == trimmingCharacters(currentTranscriptionSection)
                 IN [st EXCEPT !.currentTranscription = rest,
                               !.written = setInputInClaude(st.written, rest)]

\* The handler that sends what is left and keeps it.
sendRemainingKeeps(st) ==
    IF st.currentTranscription # <<>>
    THEN [st EXCEPT !.written = sendTranscriptionToClaude(st.written,
                                                          st.currentTranscription)]
    ELSE st

\* "Send any remaining transcription" (main.swift:301-305).
sendRemaining(st) ==
    IF st.currentTranscription # <<>>
    THEN [st EXCEPT !.written = sendTranscriptionToClaude(st.written,
                                                          st.currentTranscription),
                    !.currentTranscription = <<>>]
    ELSE st

ClientState ==
    [written |-> written,
     lastCompletedSection |-> lastCompletedSection,
     completedSectionCount |-> completedSectionCount,
     currentTranscription |-> currentTranscription]

NoResult == [hasResult |-> FALSE, text |-> <<>>, ends |-> FALSE]

DictationInit ==
    /\ currentTranscription = <<>>
    /\ lastCompletedSection = <<>>
    /\ completedSectionCount = 0
    /\ recognitionTask = TRUE
    /\ transcription = <<>>
    /\ written = <<>>
    /\ nResults = 0
    /\ nPieces = 0
    /\ handled = NoResult

\* The client's variables become those of st.
Becomes(st) ==
    /\ written' = st.written
    /\ lastCompletedSection' = st.lastCompletedSection
    /\ completedSectionCount' = st.completedSectionCount
    /\ currentTranscription' = st.currentTranscription

\* The recognition handler is called with a result: the task's transcription
\* so far, which is the one before and what was recognised since, final or
\* not.
RecognitionResult(added, isFinal) ==
    LET text == transcription \o added
        processed == processCurrentTranscriptionSection(ClientState, text)
    IN /\ recognitionTask
       /\ nResults < MaxResults
       /\ nPieces + Len(added) <= MaxPieces
       /\ nResults' = nResults + 1
       /\ nPieces' = nPieces + Len(added)
       /\ handled' = [hasResult |-> TRUE, text |-> text, ends |-> isFinal]
       /\ IF isFinal
          THEN /\ Becomes(sendRemaining(processed))
               /\ recognitionTask' = FALSE
               /\ transcription' = <<>>
          ELSE /\ Becomes(processed)
               /\ recognitionTask' = TRUE
               /\ transcription' = text

\* The recognition handler is called with an error and no result.
RecognitionError ==
    /\ recognitionTask
    /\ nResults < MaxResults
    /\ nResults' = nResults + 1
    /\ handled' = [hasResult |-> FALSE, text |-> <<>>, ends |-> TRUE]
    /\ UNCHANGED nPieces
    /\ Becomes(sendRemaining(ClientState))
    /\ recognitionTask' = FALSE
    /\ transcription' = <<>>

\* startRecording, half a second after the task ended.
RestartRecording ==
    /\ ~recognitionTask
    /\ recognitionTask' = TRUE
    /\ transcription' = <<>>
    /\ handled' = NoResult
    /\ UNCHANGED <<currentTranscription, lastCompletedSection,
                   completedSectionCount, written, nResults, nPieces>>

----------------------------------------------------------------------------
\* The page client's command side (src/unnamed/part_003:568-577, 609-639):
\* socket.onmessage, setInputInClaude and submitInputToClaude, and the page's
\* message input and send button.

\* Bound of the page model: command frames handled.
MaxCommands == 4

\* The texts a SET_CURRENT_INPUT frame may carry.
Contents == {"book a flight", "tomorrow"}

\* document.querySelector finds no element.
NoElement == "<null>"

PageInit ==
    /\ messageInput = ""
    /\ sendButton = "disabled"
    /\ clearTimers = 0
    /\ clicks = <<>>
    /\ handledCommands = <<>>

\* The frame a session receives for a command.
CommandFrame(kind, content) ==
    IF kind = SET_CURRENT_INPUT
    THEN [type |-> Str(kind), content |-> Str(content)]
    ELSE [type |-> Str(kind)]

\* socket.onmessage of the page client: the command it runs for a frame
\* ("" when the frame's type is neither of the two it compares with).
onmessage(data) ==
    IF ~HasString(data, "type") THEN ""
    ELSE IF data["type"][2] = SET_CURRENT_INPUT THEN "setInputInClaude"
    ELSE IF data["type"][2] = SUBMIT_CURRENT_INPUT THEN "submitInputToClaude"
    ELSE ""

\* socket.onmessage for a command frame.  setInputInClaude(data.content)
\* sets the input's textContent when the input is found; submitInputToClaude()
\* clicks the send button when it is found and not disabled, and then sets a
\* timer of 100 ms that empties the input; otherwise it logs "Send button
\* not found or disabled" and returns.
OnCommand(kind, content) ==
    /\ Len(handledCommands) < MaxCommands
    /\ LET data == CommandFrame(kind, content)
           command == onmessage(data)
       IN
        IF command = "setInputInClaude"
        THEN /\ messageInput' = IF messageInput # NoElement
                                THEN data["content"][2] ELSE messageInput
             /\ handledCommands' = Append(handledCommands,
                    [type |-> kind, content |-> content,
                     did |-> IF messageInput # NoElement THEN "set" ELSE "noInput"])
             /\ UNCHANGED <<sendButton, clearTimers, clicks>>
        ELSE IF command = "submitInputToClaude"
        THEN IF sendButton = "enabled"
             THEN /\ clicks' = Append(clicks, messageInput)
                  /\ clearTimers' = clearTimers + 1
                  /\ handledCommands' = Append(handledCommands,
                        [type |-> kind, content |-> "", did |-> "clicked"])
                  /\ UNCHANGED <<messageInput, sendButton>>
             ELSE /\ handledCommands' = Append(handledCommands,
                        [type |-> kind, content |-> "", did |-> "logged"])
                  /\ UNCHANGED <<messageInput, sendButton, clearTimers, clicks>>
        ELSE /\ handledCommands' = Append(handledCommands,
                    [type |-> kind, content |-> "", did |-> "ignored"])
             /\ UNCHANGED <<messageInput, sendButton, clearTimers, clicks>>

\* The callback of the 100 ms timer: the input, when found, is emptied.
ClearTimerFires ==
    /\ clearTimers > 0
    /\ clearTimers' = clearTimers - 1
    /\ messageInput' = IF messageInput # NoElement THEN "" ELSE messageInput
    /\ UNCHANGED <<sendButton, clicks, handledCommands>>

\* The page renders its send button anew: absent, disabled or enabled.
SendButtonChanges(b) ==
    /\ b # sendButton
    /\ sendButton' = b
    /\ UNCHANGED <<messageInput, clearTimers, clicks, handledCommands>>

\* The page removes its message input, or renders an empty one.
MessageInputChanges ==
    /\ messageInput' = IF messageInput = NoElement THEN "" ELSE NoElement
    /\ UNCHANGED <<sendButton, clearTimers, clicks, handledCommands>>

----------------------------------------------------------------------------
\* The page client that takes send_message commands (src/unnamed/part_002).

MaxReceived == 3
MaxRenders == 2

SenderInit ==
    /\ inputContent = ""
    /\ sendButtonState = "disabled"
    /\ checkButtonTimers = {}
    /\ buttonClicks = <<>>
    /\ received = <<>>
    /\ nRenders = 0

\* checkButton of waitForSendButton, for the command numbered n: the promise
\* resolves when the button is found and not disabled, and the callback given
\* to then clicks it; otherwise checkButton is set to run again in 100 ms.
checkButton(n, button, input, timers, out, renders) ==
    IF button = "enabled"
    THEN [timers |-> timers \ {n},
          clicks |-> Append(out, [command |-> n, input |-> input,
                                  renders |-> renders])]
    ELSE [timers |-> timers \cup {n}, clicks |-> out]

\* sendMessageToClaude(message): the input, when found, is given the message
\* as its text, and checkButton runs for the first time.
sendMessageToClaude(n, message) ==
    IF inputContent # NoElement
    THEN LET checked == checkButton(n, sendButtonState, message,
                                    checkButtonTimers, buttonClicks, nRenders)
         IN /\ inputContent' = message
            /\ checkButtonTimers' = checked.timers
            /\ buttonClicks' = checked.clicks
    ELSE UNCHANGED <<inputContent, checkButtonTimers, buttonClicks>>

\* socket.onmessage: a frame of type send_message is handed to
\* sendMessageToClaude, any other frame is logged only.
OnSendMessage(type, content) ==
    /\ Len(received) < MaxReceived
    /\ received' = Append(received,
            [type |-> type, content |-> content,
             found |-> inputContent # NoElement, renders |-> nRenders])
    /\ IF type = "send_message"
       THEN sendMessageToClaude(Len(received) + 1, content)
       ELSE UNCHANGED <<inputContent, checkButtonTimers, buttonClicks>>
    /\ UNCHANGED <<sendButtonState, nRenders>>

\* The 100 ms timer of the command numbered n runs checkButton again.
CheckButtonFires(n) ==
    /\ n \in checkButtonTimers
    /\ LET checked == checkButton(n, sendButtonState, inputContent,
                                  checkButtonTimers, buttonClicks, nRenders)
       IN /\ checkButtonTimers' = checked.timers
          /\ buttonClicks' = checked.clicks
    /\ UNCHANGED <<inputContent, sendButtonState, received, nRenders>>

\* The page renders its send button anew: absent, disabled or enabled.
SendButtonRenders(b) ==
    /\ b # sendButtonState
    /\ sendButtonState' = b
    /\ UNCHANGED <<inputContent, checkButtonTimers, buttonClicks, received,
                   nRenders>>

\* The page removes its message input, or renders an empty one.
MessageInputRenders ==
    /\ nRenders < MaxRenders
    /\ nRenders' = nRenders + 1
    /\ inputContent' = IF inputContent = NoElement THEN "" ELSE NoElement
    /\ UNCHANGED <<sendButtonState, checkButtonTimers, buttonClicks, received>>

----------------------------------------------------------------------------
\* The Deepgram listener (src/src/listen.ts).

MaxHeard == 3
MaxTranscriptLen == 2

ListenerPieces == {"hello", Space, "done", "Done"}

\* Every transcript of at most n pieces.
RECURSIVE TranscriptsUpTo(_)
TranscriptsUpTo(n) ==
    IF n = 0 THEN {<<>>}
    ELSE LET shorter == TranscriptsUpTo(n - 1)
         IN shorter \cup {Append(t, p) : t \in {u \in shorter : Len(u) = n - 1},
                                         p \in ListenerPieces}

Transcripts == TranscriptsUpTo(MaxTranscriptLen)

\* String.prototype.toLowerCase
toLowerCase(text) ==
    [i \in 1..Len(text) |-> IF text[i] = "Done" THEN "done" ELSE text[i]]

\* String.prototype.includes
includes(text, piece) == \E i \in 1..Len(text) : text[i] = piece

\* String.prototype.trim
RECURSIVE trim(_)
trim(text) ==
    IF Len(text) = 0 THEN text
    ELSE IF text[1] = Space THEN trim(Tail(text))
    ELSE IF text[Len(text)] = Space THEN trim(SubSeq(text, 1, Len(text) - 1))
    ELSE text

ListenerInit ==
    /\ transcriptBuffer = <<>>
    /\ claudeWs = "CONNECTING"
    /\ claudeSent = <<>>
    /\ heard = <<>>

\* live.on(LiveTranscriptionEvents.Transcript).  claudeWs.send throws while
\* the socket is connecting, and the catch logs; it returns, and sends
\* nothing, once the socket is closing or closed.
OnTranscript(transcript) ==
    /\ Len(heard) < MaxHeard
    /\ heard' = Append(heard, transcript)
    /\ IF trim(transcript) # <<>>
       THEN LET buffer == transcriptBuffer \o transcript \o <<Space>>
            IN IF includes(toLowerCase(transcript), "done")
               THEN IF claudeWs = "CONNECTING"
                    THEN /\ transcriptBuffer' = buffer
                         /\ UNCHANGED claudeSent
                    ELSE /\ claudeSent' = Append(claudeSent,
                                [type |-> "send_message", content |-> trim(buffer),
                                 goesOut |-> claudeWs = "OPEN",
                                 at |-> Len(heard) + 1])
                         /\ transcriptBuffer' = <<>>
               ELSE /\ transcriptBuffer' = buffer
                    /\ UNCHANGED claudeSent
       ELSE UNCHANGED <<transcriptBuffer, claudeSent>>
    /\ UNCHANGED claudeWs

\* claudeWs.on("open")
ClaudeWsOpens ==
    /\ claudeWs = "CONNECTING"
    /\ claudeWs' = "OPEN"
    /\ UNCHANGED <<transcriptBuffer, claudeSent, heard>>

\* The connection to the broker fails or ends.
ClaudeWsCloses ==
    /\ claudeWs # "CLOSED"
    /\ claudeWs' = "CLOSED"
    /\ UNCHANGED <<transcriptBuffer, claudeSent, heard>>

----------------------------------------------------------------------------
\* The specifications: each part of the system runs while the others rest.
Init == BrokerInit /\ JournalInit /\ MonitorInit /\ DictationInit /\ ForEachInit
        /\ PageInit /\ SenderInit /\ ListenerInit

Next ==
    \/ \E key \in Keys : OnConnection(key) /\ UNCHANGED <<journalVars, monitorVars, dictationVars, forEachVars, pageVars, senderVars, listenerVars>>
    \/ \E ws \in Conns : BeginClose(ws) /\ UNCHANGED <<journalVars, monitorVars, dictationVars, forEachVars, pageVars, senderVars, listenerVars>>
    \/ \E ws \in Conns : OnClose(ws) /\ UNCHANGED <<journalVars, monitorVars, dictationVars, forEachVars, pageVars, senderVars, listenerVars>>
    \/ \E ws \in Conns, frame \in 1..Len(RawFrames), failAt \in 0..MaxConns :
            OnMessage(ws, frame, failAt) /\ UNCHANGED <<journalVars, monitorVars, dictationVars, forEachVars, pageVars, senderVars, listenerVars>>
    \/ \E h \in awaiting, failAt \in 0..MaxConns, journalFails \in BOOLEAN :
            Resume(h, failAt, journalFails) /\ UNCHANGED <<journalVars, monitorVars, dictationVars, forEachVars, pageVars, senderVars, listenerVars>>
    \/ \E message \in HttpMessages, clientId \in HttpClientIds, sendThrows \in BOOLEAN :
            ApiSendMessage(message, clientId, sendThrows) /\ UNCHANGED <<journalVars, monitorVars, dictationVars, forEachVars, pageVars, senderVars, listenerVars>>

Spec == Init /\ [][Next]_vars

\* The connection and close handlers, and a publish one entry at a time.
ForEachSpecNext ==
    \/ \E key \in Keys : HandlersMayRun /\ OnConnection(key)
            /\ UNCHANGED <<journalVars, monitorVars, dictationVars, forEachVars, pageVars, senderVars, listenerVars>>
    \/ \E ws \in Conns : HandlersMayRun /\ OnClose(ws)
            /\ forEachRun' = AfterDelete(forEachRun, clients, connKey[ws])
            /\ UNCHANGED <<journalVars, monitorVars, dictationVars, pageVars, senderVars, listenerVars>>
    \/ \E ws \in Conns, frame \in 1..Len(RawFrames) :
            ForEachBegins(ws, frame) /\ UNCHANGED <<journalVars, monitorVars, dictationVars, pageVars, senderVars, listenerVars>>
    \/ \E throws \in BOOLEAN :
            ForEachVisits(throws) /\ UNCHANGED <<journalVars, monitorVars, dictationVars, pageVars, senderVars, listenerVars>>

SpecForEach == Init /\ [][ForEachSpecNext]_vars

\* The same with the scheduling the code has: the callback of clients.forEach
\* is synchronous, so a walk that began goes on to its end.  Connections
\* and closes are the clients' doing and may never come.
ForEachGoesOn ==
    \E throws \in BOOLEAN :
        ForEachVisits(throws) /\ UNCHANGED <<journalVars, monitorVars, dictationVars, pageVars, senderVars, listenerVars>>

SpecForEachFair == SpecForEach /\ WF_vars(ForEachGoesOn)

JournalSpecNext ==
    \/ \E payload \in JournalPayloads : UpdateLogEntry(payload) /\ UNCHANGED <<brokerVars, monitorVars, dictationVars, forEachVars, pageVars, senderVars, listenerVars>>
    \/ \E u \in updates : ReadFileSettles(u) /\ UNCHANGED <<brokerVars, monitorVars, dictationVars, forEachVars, pageVars, senderVars, listenerVars>>
    \/ \E u \in updates : WriteFileSettles(u) /\ UNCHANGED <<brokerVars, monitorVars, dictationVars, forEachVars, pageVars, senderVars, listenerVars>>

SpecJournal == Init /\ [][JournalSpecNext]_vars

MonitorSpecNext ==
    \/ \E isStreaming \in BOOLEAN, t \in 1..MaxNow :
            ChatMutation(isStreaming, t) /\ UNCHANGED <<brokerVars, journalVars, dictationVars, forEachVars, pageVars, senderVars, listenerVars>>
    \/ \E isStreaming \in BOOLEAN, t \in 1..MaxNow :
            ResponseAdded(isStreaming, t) /\ UNCHANGED <<brokerVars, journalVars, dictationVars, forEachVars, pageVars, senderVars, listenerVars>>
    \/ \E kind \in MutationKinds, w \in Words :
            ContentMutation(kind, w) /\ UNCHANGED <<brokerVars, journalVars, dictationVars, forEachVars, pageVars, senderVars, listenerVars>>
    \/ SocketOpens /\ UNCHANGED <<brokerVars, journalVars, dictationVars, forEachVars, pageVars, senderVars, listenerVars>>
    \/ SocketCloses /\ UNCHANGED <<brokerVars, journalVars, dictationVars, forEachVars, pageVars, senderVars, listenerVars>>

SpecMonitor == Init /\ [][MonitorSpecNext]_vars

DictationSpecNext ==
    \/ \E added \in Additions, isFinal \in BOOLEAN :
            RecognitionResult(added, isFinal)
                /\ UNCHANGED <<brokerVars, journalVars, monitorVars, forEachVars, pageVars, senderVars, listenerVars>>
    \/ RecognitionError /\ UNCHANGED <<brokerVars, journalVars, monitorVars, forEachVars, pageVars, senderVars, listenerVars>>
    \/ RestartRecording /\ UNCHANGED <<brokerVars, journalVars, monitorVars, forEachVars, pageVars, senderVars, listenerVars>>

SpecDictation == Init /\ [][DictationSpecNext]_vars

PageSpecNext ==
    \/ \E kind \in {SET_CURRENT_INPUT, SUBMIT_CURRENT_INPUT, SEND_USER_MESSAGE},
          content \in Contents :
            OnCommand(kind, content)
                /\ UNCHANGED <<brokerVars, journalVars, monitorVars, dictationVars, forEachVars, senderVars, listenerVars>>
    \/ ClearTimerFires
            /\ UNCHANGED <<brokerVars, journalVars, monitorVars, dictationVars, forEachVars, senderVars, listenerVars>>
    \/ \E b \in {"absent", "disabled", "enabled"} : SendButtonChanges(b)
            /\ UNCHANGED <<brokerVars, journalVars, monitorVars, dictationVars, forEachVars, senderVars, listenerVars>>
    \/ MessageInputChanges
            /\ UNCHANGED <<brokerVars, journalVars, monitorVars, dictationVars, forEachVars, senderVars, listenerVars>>

SpecPage == Init /\ [][PageSpecNext]_vars

SenderSpecNext ==
    \/ \E type \in {"send_message", "message"}, content \in Contents :
            OnSendMessage(type, content)
                /\ UNCHANGED <<brokerVars, journalVars, monitorVars, dictationVars, forEachVars, pageVars, listenerVars>>
    \/ \E n \in 1..MaxReceived : CheckButtonFires(n)
            /\ UNCHANGED <<brokerVars, journalVars, monitorVars, dictationVars, forEachVars, pageVars, listenerVars>>
    \/ \E b \in {"absent", "disabled", "enabled"} : SendButtonRenders(b)
            /\ UNCHANGED <<brokerVars, journalVars, monitorVars, dictationVars, forEachVars, pageVars, listenerVars>>
    \/ MessageInputRenders
            /\ UNCHANGED <<brokerVars, journalVars, monitorVars, dictationVars, forEachVars, pageVars, listenerVars>>

SpecSender == Init /\ [][SenderSpecNext]_vars

ListenerSpecNext ==
    \/ \E transcript \in Transcripts : OnTranscript(transcript)
            /\ UNCHANGED <<brokerVars, journalVars, monitorVars, dictationVars, forEachVars, pageVars, senderVars>>
    \/ ClaudeWsOpens
            /\ UNCHANGED <<brokerVars, journalVars, monitorVars, dictationVars, forEachVars, pageVars, senderVars>>
    \/ ClaudeWsCloses
            /\ UNCHANGED <<brokerVars, journalVars, monitorVars, dictationVars, forEachVars, pageVars, senderVars>>

SpecListener == Init /\ [][ListenerSpecNext]_vars

----------------------------------------------------------------------------
\* Properties of the relay broker, checked under Spec.

RegisteredIn(m, ws) == \E k \in 1..Len(m) : m[k].ws = ws

\* The open registered sessions other than ws.
OpenOthers(ws) ==
    {d \in Conns : d # ws /\ RegisteredIn(clients, d) /\ readyState[d] = "OPEN"}

\* The step is a run of the message handler for a frame of ws that passed
\* validation and reached the forEach of sends.
PublishStep(ws) ==
    /\ nOps' = nOps + 1
    /\ last'.op = "message"
    /\ last'.c = ws
    /\ last'.result \in {"sent", "sendThrew"}

\* The step is a run of the POST /api/send-message handler.
HttpStep == nOps' = nOps + 1 /\ last'.op = "http"

ValidFrameData == {RawFrames[f].data : f \in {g \in 1..Len(RawFrames) :
                        RawFrames[g].json /\ PayloadSchema(RawFrames[g].data)}}

\* C1: a valid envelope received from session A is sent once to every open
\* registered session other than A, and to no other session.
C1_BroadcastExcludingSender ==
    [][\A ws \in Conns : PublishStep(ws) =>
        \E data \in ValidFrameData : \A d \in Conns :
            inbox'[d] = IF d \in OpenOthers(ws)
                        THEN Append(inbox[d], Item(nOps', data))
                        ELSE inbox[d]]_vars

\* C2: a unicast request naming the id of a session whose close event was
\* handled, or of a session that is registered but not OPEN, sends no frame,
\* does not throw and is answered 404.
C2_UnicastToDisconnected ==
    [][\A id \in Keys :
        ( /\ HttpStep
          /\ last'.id = id
          /\ last'.status # 400
          /\ \/ \E ws \in Conns : connKey[ws] = id /\ readyState[ws] = "CLOSED"
             \/ MapHas(clients, id) /\ readyState[MapGet(clients, id)] # "OPEN" )
        => (inbox' = inbox /\ last'.status = 404 /\ ~last'.escaped)]_vars

\* The closed kind set of the wire protocol, with the fields each kind
\* requires and their primitive types.
EnvelopeRequires(kind) ==
    CASE kind = STATE_CHANGE -> {"state", "messageId", "timestamp", "url"}
      [] kind \in {RESPONSE_PART_RECEIVED, RESPONSE_COMPLETE} ->
            {"content", "messageId", "timestamp", "url"}
      [] kind \in {SEND_USER_MESSAGE, SET_CURRENT_INPUT} -> {"content"}
      [] OTHER -> {}

IsEnvelope(d) ==
    /\ "type" \in DOMAIN d
    /\ d["type"][1] = "string"
    /\ d["type"][2] \in CLAUDE_MESSAGE_TYPES
    /\ \A f \in EnvelopeRequires(d["type"][2]) : f \in DOMAIN d /\ d[f][1] = "string"
    /\ d["type"][2] = STATE_CHANGE => d["state"][2] \in {"generating", "finished"}

\* C3: a frame that fails validation is never sent to a session and never
\* journaled: what sessions receive and what the journal is given are
\* envelopes of the closed kind set (or the broker's own error reply).
C3_InvalidNeverForwarded ==
    /\ \A ws \in Conns : \A k \in 1..Len(inbox[ws]) :
            "error" \in DOMAIN inbox[ws][k].data \/ IsEnvelope(inbox[ws][k].data)
    /\ \A k \in 1..Len(journalLog) : IsEnvelope(journalLog[k].payload)

\* An invalid frame was handled while another session was registered and open.
C3_Witness ==
    /\ last.op = "message"
    /\ last.result = "invalid"
    /\ \E d \in OpenOthers(last.c) : connKey[d] # last.id

\* C4: a session that receives two envelopes receives them in the order in
\* which the broker began handling them.
C4_PerDestinationOrder ==
    \A ws \in Conns : \A j, k \in 1..Len(inbox[ws]) :
        j < k => inbox[ws][j].n < inbox[ws][k].n

\* A session has received two broadcast envelopes.
C4_Witness ==
    \E ws \in Conns : \E j, k \in 1..Len(inbox[ws]) :
        /\ j < k
        /\ inbox[ws][j].data \in ValidFrameData
        /\ inbox[ws][k].data \in ValidFrameData

\* The sessions the forEach of a publish by ws calls send for.
EligibleDests(ws) ==
    {clients[k].ws : k \in {j \in 1..Len(clients) :
        clients[j].id # connKey[ws] /\ readyState[clients[j].ws] = "OPEN"}}

\* C5: within one publish, a send that throws for one destination does not
\* keep the envelope from the other destinations.
C5_SendFailureIsolated ==
    [][\A ws \in Conns : (PublishStep(ws) /\ last'.result = "sendThrew") =>
        \E bad \in EligibleDests(ws) : \A d \in EligibleDests(ws) \ {bad} :
            Len(inbox'[d]) = Len(inbox[d]) + 1]_vars

\* C6: no two distinct connections are ever registered under the same id.
C6_SessionIdsNeverReused ==
    \A c1, c2 \in 1..nConns : c1 # c2 => connKey[c1] # connKey[c2]

\* C7: handling a session's close event removes its id from the registry; a
\* closed session is never registered and is never sent a frame again; and no
\* exception leaves a publish, whatever the state of its destinations.
C7_CloseUnregisters ==
    [][/\ \A ws \in Conns :
            /\ (readyState[ws] # "CLOSED" /\ readyState'[ws] = "CLOSED")
                    => ~MapHas(clients', connKey[ws])
            /\ readyState'[ws] = "CLOSED" => ~RegisteredIn(clients', ws)
            /\ readyState[ws] = "CLOSED" => inbox'[ws] = inbox[ws]
       /\ last'.op \in {"message", "resume"} /\ last'.result \in {"sent", "sendThrew"}
            => ~last'.escaped]_vars

\* A publish ran after one session's close event was handled and while another
\* destination was closing.
C7_Witness ==
    /\ last.op = "message"
    /\ last.result = "sent"
    /\ \E ws \in Conns : readyState[ws] = "CLOSED"
    /\ \E d \in Conns :
        /\ d # last.c
        /\ connKey[d] # last.id
        /\ readyState[d] = "CLOSING"
        /\ RegisteredIn(clients, d)

----------------------------------------------------------------------------
\* Properties of the journal, checked under SpecJournal.

\* The pieces of the journal's text that hold the timestamp of call n.
EntriesOf(n) ==
    {k \in 1..Len(Split(logFile.text)) : Includes(Split(logFile.text)[k], TsOf(n))}

\* C8: two calls of the journal update, one after the other, with the same
\* messageId leave exactly one entry for that id: it holds the second call's
\* content and stands where the first call's entry stood.
C8_UpsertByCorrelationId ==
    (sequential /\ updates = {} /\ Len(done) >= 2) =>
        LET first == done[Len(done) - 1]
            second == done[Len(done)]
        IN ( /\ first.outcome = "written"
             /\ second.outcome = "written"
             /\ first.payload.messageId # ""
             /\ first.payload.messageId = second.payload.messageId )
           => /\ EntriesOf(first.n) = {}
              /\ EntriesOf(second.n) = {first.index}

\* The place of token tok in text (0: it is not there).
Pos(text, tok) ==
    IF \E i \in 1..Len(text) : text[i] = tok
    THEN CHOOSE i \in 1..Len(text) : text[i] = tok
    ELSE 0

\* Call n's envelope quotes a `MessageID: ...` marker in its content, so a
\* later update for that id overwrites its entry.
QuotesMarker(n) ==
    \E k \in 1..Len(done') :
        /\ done'[k].n = n
        /\ \E i \in 1..Len(done'[k].payload.content) :
                done'[k].payload.content[i] \in {Marker("m1"), Marker("m2")}

\* C9: under any interleaving of journal updates, an entry that an update
\* wrote stays in the journal, and entries keep their relative order.
C9_JournalNeverLosesEntries ==
    [][\A n, m \in 1..MaxUpdates :
        LET pn == Pos(logFile.text, TsOf(n))
            pm == Pos(logFile.text, TsOf(m))
            qn == Pos(logFile'.text, TsOf(n))
            qm == Pos(logFile'.text, TsOf(m))
        IN /\ (pn # 0 /\ ~QuotesMarker(n)) => qn # 0
           /\ (pn # 0 /\ pm # 0 /\ qn # 0 /\ qm # 0 /\ pn < pm) => qn < qm]_vars

----------------------------------------------------------------------------
\* Properties of the response monitor, checked under SpecMonitor.

\* The payloads of the content-delta envelopes given to sendToServer, joined
\* in the order in which they were emitted.
RECURSIVE ConcatParts(_)
ConcatParts(out) ==
    IF Len(out) = 0 THEN <<>>
    ELSE (IF out[1].envelope.type = RESPONSE_PART_RECEIVED
          THEN out[1].envelope.content ELSE <<>>) \o ConcatParts(Tail(out))

\* text with its first n tokens removed
DropFirst(text, n) == SubSeq(text, n + 1, Len(text))

\* C10: while the response element is monitored and its content only grows,
\* the payloads of the emitted content-delta envelopes, concatenated in
\* emission order, equal the current content minus the portion that was
\* present when monitoring began (each payload is the new suffix only).
C10_DeltasConcatenateToContent ==
    contentObservers > 0
        => ConcatParts(emitted)
            = DropFirst(Content(paragraphs), Len(monitoredFrom))

\* The content-delta envelopes among out, in emission order.
RECURSIVE Parts(_)
Parts(out) ==
    IF Len(out) = 0 THEN <<>>
    ELSE (IF out[1].envelope.type = RESPONSE_PART_RECEIVED
          THEN <<out[1].envelope>> ELSE <<>>) \o Parts(Tail(out))

NoConsecutiveDuplicates(out) ==
    LET parts == Parts(out)
    IN \A i \in 1..(Len(parts) - 1) :
            parts[i].messageId = parts[i + 1].messageId
                => parts[i].content # parts[i + 1].content

\* The content observers are notified of a mutation that left the content as
\* it was at the notification before.
IsContentNote(note) == note.kind = "content"

ContentNotes(notes) == SelectSeq(notes, IsContentNote)

RepeatNotification ==
    LET before == ContentNotes(notified)
        after == ContentNotes(notified')
    IN /\ Len(before) > 0
       /\ Len(after) = Len(before) + 1
       /\ after[Len(after)].content = before[Len(before)].content

\* C11: duplicate suppression.  No two consecutive content-delta envelopes
\* with the same messageId carry the same content, and a notification whose
\* content equals that of the notification before it emits no envelope,
\* however many content observers are attached to the response element.
C11_DuplicateSuppression ==
    [][/\ NoConsecutiveDuplicates(emitted')
       /\ RepeatNotification => emitted' = emitted]_vars

\* Two content observers have been notified twice of the same content, after
\* a content-delta went out.
C11_Witness ==
    /\ contentObservers >= 2
    /\ Len(ContentNotes(notified)) >= 2
    /\ LET notes == ContentNotes(notified)
       IN notes[Len(notes)].content = notes[Len(notes) - 1].content
    /\ Len(Parts(emitted)) >= 1

\* The envelopes given to sendToServer, in order.
Envelopes(out) == [i \in 1..Len(out) |-> out[i].envelope]

\* The response element appears empty and streaming, its text becomes "Hello"
\* and then "Hello world", and it is seen again, no longer streaming.
HelloWorld ==
    <<ChatNote(TRUE), ContentNote(<<"Hello">>),
      ContentNote(<<"Hello", " world">>), ChatNote(FALSE)>>

\* C12: the notifications ("Hello", producing), ("Hello world", producing),
\* ("Hello world", not producing) yield exactly state-change(generating),
\* content-delta("Hello"), content-delta(" world"), state-change(finished),
\* all four with one messageId.
C12_HelloWorldEndToEnd ==
    notified = HelloWorld
        => \E id \in 1..MaxNow :
                Envelopes(emitted)
                    = <<StateChange("generating", id),
                        ResponsePart(<<"Hello">>, id),
                        ResponsePart(<<" world">>, id),
                        StateChange("finished", id)>>

\* The state-change envelopes among out, in emission order.
RECURSIVE StateChanges(_)
StateChanges(out) ==
    IF Len(out) = 0 THEN <<>>
    ELSE (IF out[1].envelope.type = STATE_CHANGE
          THEN <<out[1].envelope>> ELSE <<>>) \o StateChanges(Tail(out))

\* generating, finished, generating, ...: each finished carries the id of the
\* generating before it.
Alternates(out) ==
    LET changes == StateChanges(out)
    IN \A i \in 1..Len(changes) :
            IF i % 2 = 1
            THEN changes[i].state = "generating"
            ELSE /\ changes[i].state = "finished"
                 /\ changes[i].messageId = changes[i - 1].messageId

\* The ids that envelopes among out carry.
IdsIn(out) == {out[i].envelope.messageId : i \in 1..Len(out)}

\* The step emits the state-change envelope e.
EmitsStateChange(e) ==
    /\ Len(emitted') = Len(emitted) + 1
    /\ e = emitted'[Len(emitted')].envelope
    /\ e.type = STATE_CHANGE

\* What holds of a step that emits state-change(generating), the id being
\* new or not.
GeneratingStep(e) ==
    /\ currentMessageId = NoMessageId
    /\ e.messageId # NoMessageId
    /\ currentMessageId' = e.messageId

FinishedStep(e) ==
    /\ currentMessageId # NoMessageId
    /\ e.messageId = currentMessageId
    /\ currentMessageId' = NoMessageId

\* C13: state-change envelopes alternate generating, finished, generating,
\* ..., starting with generating.  A generating is emitted only when no
\* messageId is active and makes a new id the active one; a finished is
\* emitted only when an id is active, carries that id and clears it.
C13_StateChangesAlternate ==
    [][/\ Alternates(emitted')
       /\ \A e \in {emitted'[i].envelope : i \in 1..Len(emitted')} :
            EmitsStateChange(e) =>
                IF e.state = "generating"
                THEN GeneratingStep(e) /\ e.messageId \notin IdsIn(emitted)
                ELSE FinishedStep(e)]_vars

\* The positions before i in out that hold a state-change envelope.
StateChangesBefore(out, i) ==
    {j \in 1..(i - 1) : out[j].envelope.type = STATE_CHANGE}

\* The largest member of a non-empty set of numbers.
Latest(js) == CHOOSE j \in js : \A k \in js : k <= j

\* C14: every content-delta envelope carries the active messageId: it is not
\* null, and it is the id of the latest state-change before it, which is a
\* state-change(generating).
C14_PartsCarryActiveId ==
    \A i \in 1..Len(emitted) :
        emitted[i].envelope.type = RESPONSE_PART_RECEIVED
            => /\ emitted[i].envelope.messageId # NoMessageId
               /\ StateChangesBefore(emitted, i) # {}
               /\ LET change == emitted[Latest(StateChangesBefore(emitted, i))].envelope
                  IN /\ change.state = "generating"
                     /\ change.messageId = emitted[i].envelope.messageId

----------------------------------------------------------------------------
\* Properties of the dictation client, checked under SpecDictation.

\* The segments submitted: the content of every set_input that a
\* submit_input follows at once.
Submitted(out) ==
    LET at == {i \in 1..(Len(out) - 1) :
                    out[i].type = "set_input" /\ out[i + 1].type = "submit_input"}
        RECURSIVE From(_)
        From(i) == IF i > Len(out) THEN <<>>
                   ELSE (IF i \in at THEN <<out[i].content>> ELSE <<>>)
                            \o From(i + 1)
    IN From(1)

BookAFlightJinxTomorrow ==
    <<"book a flight", Space, "JINX", Space, "tomorrow">>

\* The handler has just been given text, not final, as the transcription of
\* a task, and nothing else was ever recognised but what text holds.
Heard(text) ==
    /\ handled.hasResult
    /\ ~handled.ends
    /\ handled.text = text
    /\ nPieces = Len(text)

\* C15: the text "book a flight JINX tomorrow" yields exactly one submitted
\* segment, "book a flight", and leaves "tomorrow" as the pending segment.
C15_BookAFlight ==
    Heard(BookAFlightJinxTomorrow)
        => /\ Submitted(written) = << <<"book a flight">> >>
           /\ currentTranscription = <<"tomorrow">>

\* The trigger word, in any letter-casing.
IsKeyword(piece) == piece \in {"jinx", "JINX"}

HasKeyword(text) == \E i \in 1..Len(text) : IsKeyword(text[i])

FirstKeyword(text) ==
    CHOOSE i \in 1..Len(text) :
        IsKeyword(text[i]) /\ \A j \in 1..(i - 1) : ~IsKeyword(text[j])

\* text without the spaces at its ends
NoOuterSpace(text) ==
    LET inner == {i \in 1..Len(text) : text[i] # Space}
    IN IF inner = {} THEN <<>>
       ELSE SubSeq(text, CHOOSE i \in inner : \A j \in inner : i <= j,
                         CHOOSE i \in inner : \A j \in inner : j <= i)

BeforeKeyword(text) == NoOuterSpace(SubSeq(text, 1, FirstKeyword(text) - 1))

AfterKeyword(text) ==
    NoOuterSpace(SubSeq(text, FirstKeyword(text) + 1, Len(text)))

\* C16: the split at the trigger word is case-insensitive.  When a client that
\* has completed no section yet is given a text that holds the trigger word,
\* in any letter-casing, after some words, the text before the first
\* occurrence is submitted, it does not hold the trigger word, and the text
\* after that occurrence becomes the pending segment.
C16_CaseInsensitiveSplit ==
    [][(/\ nResults' = nResults + 1
        /\ handled'.hasResult
        /\ ~handled'.ends
        /\ lastCompletedSection = <<>>
        /\ HasKeyword(handled'.text)
        /\ BeforeKeyword(handled'.text) # <<>>)
       => /\ written' = sendTranscriptionToClaude(written,
                                                  BeforeKeyword(handled'.text))
          /\ ~HasKeyword(written'[Len(written') - 1].content)
          /\ currentTranscription' = AfterKeyword(handled'.text)]_vars

\* C17: when the recognition task ends, by an error or a final result, a
\* pending segment that is not empty is submitted once and the buffer is
\* emptied, an empty one submits nothing, and recording starts again only
\* with the buffer empty and without submitting anything.
C17_FlushOnRestart ==
    [][/\ (nResults' = nResults + 1 /\ handled'.ends)
            => LET st == IF handled'.hasResult
                         THEN processCurrentTranscriptionSection(ClientState,
                                                                 handled'.text)
                         ELSE ClientState
               IN /\ written' = IF st.currentTranscription # <<>>
                                THEN sendTranscriptionToClaude(st.written,
                                                        st.currentTranscription)
                                ELSE st.written
                  /\ currentTranscription' = <<>>
                  /\ ~recognitionTask'
       /\ (~recognitionTask /\ recognitionTask')
            => /\ currentTranscription = <<>>
               /\ written' = written]_vars

\* The task ended with an error while a segment was pending: the segment has
\* been submitted and the buffer is empty.
C17_Witness ==
    /\ handled.ends
    /\ ~handled.hasResult
    /\ currentTranscription = <<>>
    /\ Len(written) >= 3
    /\ written[Len(written)].type = "submit_input"
    /\ written[Len(written) - 1].type = "set_input"
    /\ written[Len(written) - 1].content # <<>>
    /\ written[Len(written) - 2] = written[Len(written) - 1]

----------------------------------------------------------------------------
\* More properties of the relay broker, checked under Spec.

\* The step is a run of the POST /api/send-message handler for a request that
\* has a message.
RoutedStep == HttpStep /\ last'.result # "messageRequired"

\* C18 as the specification states it: a request whose target id is absent
\* or names no registered session is answered 404 and sends no frame.
C18_AbsentOrUnknownIsNotFound ==
    [][(RoutedStep /\ (last'.id = Absent \/ ~MapHas(clients, last'.id)))
        => (last'.status = 404 /\ inbox' = inbox)]_vars

\* C18, amended: of the requests that have a message, one whose target id is
\* absent is answered 400, one whose target id names no registered session is
\* answered 404, and neither sends a frame nor changes the registry.
C18_AbsentIs400UnknownIs404 ==
    [][RoutedStep =>
        /\ last'.id = Absent
            => (last'.status = 400 /\ inbox' = inbox /\ clients' = clients)
        /\ (last'.id # Absent /\ ~MapHas(clients, last'.id))
            => (last'.status = 404 /\ inbox' = inbox /\ clients' = clients)]_vars

\* A request named an id that no session is registered under, while a
\* session was registered and open, and was answered 404.
C18_Witness ==
    /\ last.op = "http"
    /\ last.status = 404
    /\ last.id \in Keys
    /\ ~MapHas(clients, last.id)
    /\ \E ws \in Conns : RegisteredIn(clients, ws) /\ readyState[ws] = "OPEN"

\* C19: a unicast that succeeds (200) sends one SEND_USER_MESSAGE frame to
\* the session registered under the named id, sends nothing to any other
\* session, and leaves the registry as it was.
C19_UnicastToTargetOnly ==
    [][(HttpStep /\ last'.status = 200) =>
        LET target == MapGet(clients, last'.id)
        IN /\ target # 0
           /\ \E message \in HttpMessages \ {Absent, ""} :
                inbox'[target]
                    = Append(inbox[target],
                             Item(nOps', [type |-> Str(SEND_USER_MESSAGE),
                                          content |-> Str(message)]))
           /\ \A ws \in Conns \ {target} : inbox'[ws] = inbox[ws]
           /\ clients' = clients]_vars

\* A unicast succeeded while another session was registered and open.
C19_Witness ==
    /\ last.op = "http"
    /\ last.status = 200
    /\ \E ws \in Conns :
        /\ ws # last.c
        /\ RegisteredIn(clients, ws)
        /\ readyState[ws] = "OPEN"

\* The step is a run of the message handler for a frame of ws that failed
\* schema validation.
InvalidStep(ws) ==
    /\ nOps' = nOps + 1
    /\ last'.op = "message"
    /\ last'.c = ws
    /\ last'.result = "invalid"

\* C20: a frame that fails schema validation changes nothing: the registry,
\* the sender's registration and connection, and what every other session
\* has been sent stay as they were, and no exception leaves the handler.  The
\* next frame of the same session, when it is valid and no send throws, is
\* sent to every session the publish loop sends to.
C20_ValidationFailureNoPenalty ==
    [][\A ws \in Conns :
        /\ InvalidStep(ws)
            => /\ clients' = clients
               /\ readyState' = readyState
               /\ \A d \in Conns \ {ws} : inbox'[d] = inbox[d]
               /\ ~last'.escaped
        /\ (/\ last.op = "message" /\ last.c = ws /\ last.result = "invalid"
            /\ PublishStep(ws) /\ last'.result = "sent")
            => /\ RegisteredIn(clients, ws) => RegisteredIn(clients', ws)
               /\ \E data \in ValidFrameData : \A d \in EligibleDests(ws) :
                    inbox'[d] = Append(inbox[d], Item(nOps', data))]_vars

\* A registered, open session has just sent a frame that failed validation,
\* while another session was registered and open: the sender is still
\* registered and open.
C20_Witness ==
    /\ last.op = "message"
    /\ last.result = "invalid"
    /\ ~last.escaped
    /\ RegisteredIn(clients, last.c)
    /\ readyState[last.c] = "OPEN"
    /\ \E d \in Conns \ {last.c} :
            RegisteredIn(clients, d) /\ readyState[d] = "OPEN"

----------------------------------------------------------------------------
\* C21 to C29: the broker, continued.

\* The step is the handler of h running on after a failed journal call.
JournalFailedStep(h) ==
    /\ h \in awaiting
    /\ awaiting' = awaiting \ {h}
    /\ last'.op = "resume"
    /\ last'.result = "journalFailed"

\* Connection d has received the frame of handler n carrying data.
Received(box, d, n, data) ==
    \E i \in 1..Len(box[d]) : box[d][i].n = n /\ box[d][i].data = data

\* C21: delivery and durability are decoupled.  When the journal read or
\* write for an envelope fails, the envelope has been delivered to every
\* destination session of that publish, no delivery is undone, and no
\* exception leaves the handler (the failure is only logged).
C21_DeliveryDecoupledFromJournal ==
    [][\A h \in awaiting :
          JournalFailedStep(h) =>
              /\ ~last'.escaped
              /\ inbox' = inbox
              /\ clients' = clients
              /\ \A d \in h.dests : Received(inbox', d, h.n, h.data)]_vars

\* A journal call has failed for an envelope that had a destination, which
\* holds the envelope.
C21_Witness ==
    /\ last.op = "resume"
    /\ last.result = "journalFailed"
    /\ \E d \in Conns : d # last.c /\ Len(inbox[d]) > 0

\* C22: when a send throws for one destination during a publish, that session
\* is removed from the registry, and every other destination stays registered
\* and receives the envelope.
C22_SendFailureUnregisters ==
    [][\A ws \in Conns : (PublishStep(ws) /\ last'.result = "sendThrew") =>
        \E bad \in EligibleDests(ws) :
            /\ ~RegisteredIn(clients', bad)
            /\ \A d \in EligibleDests(ws) \ {bad} :
                /\ RegisteredIn(clients', d)
                /\ Len(inbox'[d]) = Len(inbox[d]) + 1]_vars

\* The step ends a walk of the registry in which no send threw.
ForEachEnds == forEachRun.active /\ ~forEachRun'.active /\ ~forEachRun'.threw

C24_ReconnectionIsNewSession ==
    [][/\ nConns' = nConns + 1 =>
            \A c \in 1..nConns :
                readyState[c] = "CLOSED" => connKey'[nConns'] # connKey[c]
       /\ \A c \in Conns : readyState[c] = "CLOSED" =>
            (readyState'[c] = "CLOSED" /\ ~RegisteredIn(clients', c))]_vars

\* The frame has a valid kind and all the fields the kind requires, and
\* fields besides.
HasExtraFields(d) ==
    IsEnvelope(d) /\ DOMAIN d # {"type"} \cup EnvelopeRequires(d["type"][2])

\* The same frame without the extra fields.
WithoutExtraFields(d) ==
    [f \in {"type"} \cup EnvelopeRequires(d["type"][2]) |-> d[f]]

\* The frames of RawFrames that have extra fields.
ExtraFrames ==
    {f \in 1..Len(RawFrames) : RawFrames[f].json /\ HasExtraFields(RawFrames[f].data)}

\* The connections a step writes a frame to.
WrittenTo(before, after) == {d \in Conns : after[d] # before[d]}

\* C27: unknown additional fields are ignored, not rejected.  A frame with a
\* valid kind, all required fields and extra unknown fields passes
\* validation, and is sent to the connections the same frame without the
\* extra fields would be sent to.
C27_ExtraFieldsIgnored ==
    [][(nOps' = nOps + 1 /\ last'.op = "message") =>
        \A frame \in ExtraFrames, failAt \in 0..MaxConns :
            OnMessage(last'.c, frame, failAt)
            => /\ last'.result \in {"sent", "sendThrew"}
               /\ IsEnvelope(WithoutExtraFields(RawFrames[frame].data))
               /\ WrittenTo(inbox, inbox') =
                    WrittenTo(inbox,
                        ForEachSend(clients, 1, last'.id,
                            Item(nOps', WithoutExtraFields(RawFrames[frame].data)),
                            inbox, 0, failAt).box)]_vars

\* A session holds a frame that was sent with a field its kind does not name.
C27_Witness ==
    \E d \in Conns : \E k \in 1..Len(inbox[d]) :
        /\ "isUser" \in DOMAIN inbox[d][k].data
        /\ last.op = "message"
        /\ last.result = "sent"
        /\ d # last.c

\* C28: a registered session from which no inbound frame arrives is in the
\* end disconnected and removed from the registry by the broker itself,
\* without the client closing the connection.
C28_LivenessTimeout ==
    \A c \in Conns :
        (RegisteredIn(clients, c) /\ readyState[c] = "OPEN")
            ~> ~RegisteredIn(clients, c)

\* Connection c is the connection the registry stores under c's own id.
StoredUnderOwnId(m, keys, c) ==
    \E k \in 1..Len(m) : m[k].id = keys[c] /\ m[k].ws = c

\* C29: under any interleaving of connect and close events, every connection
\* that has connected and not yet closed is stored in the registry under its
\* own id, and handling the close of one connection leaves the entry of every
\* other connection that is not closed as it was.
C29_RegistryConsistency ==
    [][/\ \A c \in 1..nConns' :
            readyState'[c] \in {"OPEN", "CLOSING"} => StoredUnderOwnId(clients', connKey', c)
       /\ \A c, d \in 1..nConns :
            ( /\ c # d
              /\ readyState[c] # "CLOSED" /\ readyState'[c] = "CLOSED"
              /\ readyState'[d] \in {"OPEN", "CLOSING"}
              /\ StoredUnderOwnId(clients, connKey, d) )
            => StoredUnderOwnId(clients', connKey', d)]_vars

----------------------------------------------------------------------------
\* C25: the command path, from the dictation client through the broker to the
\* page client.

\* C25: every set-pending-input and confirm-pending-input frame the dictation
\* client sends passes the broker's validation (and so is published to the
\* other sessions), and the page client recognises its kind: it sets the
\* input for the one and submits it for the other.
C25_CommandPathEndToEnd ==
    \A i \in 1..Len(written) :
        LET frame == sendToWebSocket(written[i]) IN
            /\ PayloadSchema(frame)
            /\ onmessage(frame) = IF written[i].type = "set_input"
                                  THEN "setInputInClaude"
                                  ELSE "submitInputToClaude"

----------------------------------------------------------------------------
\* C26 and C30: the page client's commands, checked under SpecPage.

\* The confirm commands handled so far.
Confirms ==
    {i \in 1..Len(handledCommands) : handledCommands[i].type = SUBMIT_CURRENT_INPUT}

\* C26: a confirm command that reaches the page client while the send button
\* is absent or disabled is held and submitted once the button is ready, never
\* dropped: whenever the button is ready, every confirm command handled so
\* far has clicked it.
C26_CommandsHeldUntilReady ==
    sendButton = "enabled" => Len(clicks) = Cardinality(Confirms)

\* The last command handled set the input to its content.
LastCommandSetInput ==
    /\ Len(handledCommands) > 0
    /\ handledCommands[Len(handledCommands)].did = "set"
    /\ messageInput = handledCommands[Len(handledCommands)].content

\* C30: no pending input is lost to the delayed clear.  When a clear timer
\* fires after a set-pending-input that followed the confirm, the input
\* keeps the content of that set-pending-input.
C30_NoInputLostToDelayedClear ==
    [][(clearTimers' = clearTimers - 1 /\ LastCommandSetInput)
            => messageInput' = messageInput]_vars

----------------------------------------------------------------------------
\* C31 and C32: more properties of the dictation client, checked under
\* SpecDictation.

\* The consumed boundary is found in text (or nothing is consumed yet).
BoundaryFound(text) ==
    lastCompletedSection = <<>> \/ rangeOf(text, lastCompletedSection) # 0

\* The section of text that is not consumed yet.
Unconsumed(text) ==
    IF lastCompletedSection = <<>> THEN text
    ELSE SubSeq(text, rangeOf(text, lastCompletedSection) + Len(lastCompletedSection),
                Len(text))

\* The step is a call of the recognition handler with a result that is not
\* final.
ResultStep == nResults' = nResults + 1 /\ handled'.hasResult /\ ~handled'.ends

\* C31: segmentation always makes progress.  Whenever the section of the
\* transcription that is not consumed yet holds the trigger word, processing
\* the result submits a segment or advances the consumed boundary; a trigger
\* word after empty or blank text does not leave the client stuck.
C31_SegmentationProgress ==
    [][(/\ ResultStep
        /\ BoundaryFound(handled'.text)
        /\ HasKeyword(Unconsumed(handled'.text)))
       => \/ Len(Submitted(written')) > Len(Submitted(written))
          \/ lastCompletedSection' # lastCompletedSection
          \/ completedSectionCount' > completedSectionCount]_vars

\* Recording has started again after at least one completed segment, and the
\* new task has given no result yet.
RestartedAfterSegment ==
    /\ completedSectionCount >= 1
    /\ recognitionTask
    /\ handled = NoResult
    /\ transcription = <<>>

\* C32: segmentation survives a restart of the source.  The first result of
\* the recognition task started after a completed segment is processed: when
\* it holds no trigger word, its text becomes the pending input and is sent
\* as a set-pending-input.
C32_SegmentationSurvivesRestart ==
    [][(/\ RestartedAfterSegment
        /\ ResultStep
        /\ ~HasKeyword(handled'.text))
       => /\ currentTranscription' = NoOuterSpace(handled'.text)
          /\ Len(written') = Len(written) + 1
          /\ written'[Len(written')] =
                [type |-> "set_input", content |-> NoOuterSpace(handled'.text)]]_vars

----------------------------------------------------------------------------
\* C33: one more property of the journal, checked under SpecJournal.

\* The calls whose entry the text holds.
Journaled(text) == {n \in 1..MaxUpdates : Pos(text, TsOf(n)) # 0}

\* text begins with the text start
BeginsWith(text, start) ==
    Len(start) <= Len(text) /\ SubSeq(text, 1, Len(start)) = start

\* C33: append on first sight.  A journal update for an envelope with no
\* messageId, or with a messageId for which the journal holds no entry,
\* leaves the journal with exactly one more entry, the new one, after all the
\* entries it held, which are unchanged; so does the first update ever, when
\* the journal file does not exist yet.
C33_AppendOnFirstSight ==
    [][Len(done') = Len(done) + 1 =>
        LET run == done'[Len(done')] IN
        (run.payload.messageId = ""
            \/ ~Includes(logFile.text, Marker(run.payload.messageId)))
        => /\ logFile'.exists
           /\ Journaled(logFile'.text) = Journaled(logFile.text) \cup {run.n}
           /\ run.n \notin Journaled(logFile.text)
           /\ BeginsWith(logFile'.text, logFile.text)]_vars

----------------------------------------------------------------------------
\* Generations of the page monitor, checked under SpecMonitor.

\* The position in notes of the notification that began the generation going
\* on after notes, 0 if none goes on: a generation begins at a streaming
\* element found while no id is held and ends at the next element found not
\* streaming.
GenerationBegan(notes) ==
    LET RECURSIVE From(_, _)
        From(i, start) ==
            IF i > Len(notes) THEN start
            ELSE IF notes[i].kind = "content" THEN From(i + 1, start)
            ELSE IF start = 0 /\ notes[i].isStreaming THEN From(i + 1, i)
            ELSE IF start # 0 /\ ~notes[i].isStreaming THEN From(i + 1, 0)
            ELSE From(i + 1, start)
    IN From(1, 0)

\* The generation going on began at a response element made for it, no other
\* element was found since, and its content observer was notified of a
\* non-empty content.
GenerationHasContent ==
    LET start == GenerationBegan(notified)
    IN /\ start # 0
       /\ notified[start].kind = "response"
       /\ \A i \in (start + 1)..Len(notified) : notified[i].kind = "content"
       /\ \E i \in (start + 1)..Len(notified) : Len(notified[i].content) > 0

\* The calls of sendToServer since the latest state-change(generating) that
\* hand over a content-delta.
PartsOfGeneration(out) ==
    LET begun == {j \in 1..Len(out) :
                    /\ out[j].envelope.type = STATE_CHANGE
                    /\ out[j].envelope.state = "generating"}
    IN IF begun = {} THEN {}
       ELSE {k \in (Latest(begun) + 1)..Len(out) :
                out[k].envelope.type = RESPONSE_PART_RECEIVED}

\* C34: every generation with non-empty content yields at least one
\* content-delta.  When a generation ends whose response element showed a
\* non-empty content to its content observer, sendToServer was called with a
\* content-delta at least once since the generation began, whatever content
\* the generation before it emitted last.
C34_GenerationYieldsContent ==
    [][(/\ currentMessageId # NoMessageId
        /\ currentMessageId' = NoMessageId
        /\ GenerationHasContent)
            => PartsOfGeneration(emitted) # {}]_vars

----------------------------------------------------------------------------
\* The send_message page client, checked under SpecSender.

\* C35: exactly-once submission per command.  No command's send button is
\* clicked twice, and each click is made while the input holds the content of
\* the command the click belongs to, as long as the page has not rendered its
\* input anew since the command came; this also when a command comes while
\* the one before it is still waiting for the send button.
C35_OneClickPerCommand ==
    /\ \A i, j \in 1..Len(buttonClicks) :
            buttonClicks[i].command = buttonClicks[j].command => i = j
    /\ \A i \in 1..Len(buttonClicks) :
            LET click == buttonClicks[i]
                command == received[click.command]
            IN click.renders = command.renders
                    => click.input = command.content

----------------------------------------------------------------------------
\* The Deepgram listener, checked under SpecListener.

NonBlank(transcript) == trim(transcript) # <<>>

SaysDone(transcript) == includes(toLowerCase(transcript), "done")

\* The non-blank transcripts among those that came after the latest send.
SincePreviousSend(transcripts, sent) ==
    LET from == IF Len(sent) = 0 THEN 1 ELSE sent[Len(sent)].at + 1
    IN SelectSeq(SubSeq(transcripts, from, Len(transcripts)), NonBlank)

\* C38: transcript buffering.  A transcript event gives a send_message to the
\* socket exactly when its transcript is not blank and contains "done" in any
\* letter-casing; the content is the non-blank transcripts since the send
\* before, joined by spaces and trimmed, and the buffer is empty after the
\* send; a blank transcript changes neither the buffer nor what was sent.
C38_TranscriptBuffering ==
    [][Len(heard') = Len(heard) + 1 =>
        LET transcript == heard'[Len(heard')]
        IN IF ~NonBlank(transcript)
           THEN transcriptBuffer' = transcriptBuffer /\ claudeSent' = claudeSent
           ELSE IF SaysDone(transcript)
           THEN /\ Len(claudeSent') = Len(claudeSent) + 1
                /\ claudeSent'[Len(claudeSent')].type = "send_message"
                /\ claudeSent'[Len(claudeSent')].content =
                        trim(joined(SincePreviousSend(heard', claudeSent), Space))
                /\ transcriptBuffer' = <<>>
           ELSE claudeSent' = claudeSent]_vars

----------------------------------------------------------------------------
\* Frames the broker cannot read, and requests without a message, checked
\* under Spec.

\* The step is a run of the message handler for a frame of ws that is not
\* JSON.
NotJsonStep(ws) ==
    /\ nOps' = nOps + 1
    /\ last'.op = "message"
    /\ last'.c = ws
    /\ last'.result = "notJson"

\* C36: a frame that is not JSON causes exactly one frame, the error frame
\* {error: "Invalid message format"}, sent to the session the frame came
\* from; no other session is sent anything and the registry stays as it was.
\* A frame that is JSON and fails schema validation causes no frame at all.
\* (Stated for the runs in which ws.send does not throw.)
C36_ErrorFrameToSenderOnly ==
    [][\A ws \in Conns :
        /\ (NotJsonStep(ws) /\ ~last'.escaped) =>
                /\ inbox' = [inbox EXCEPT ![ws] = Append(@, Item(nOps', ErrorFrame))]
                /\ clients' = clients
        /\ InvalidStep(ws) => inbox' = inbox]_vars

\* The message of a request that has none: the field is not there, or it is
\* the empty string.
MissingOrEmpty == {Absent, ""}

\* C37: a request to the routing endpoint whose message is missing or empty
\* is answered 400 and routes nothing: no session is sent a frame and the
\* registry stays as it was, whether the named target is connected or not.
C37_MessageRequiredBeforeRouting ==
    [][HttpStep =>
        \A message \in MissingOrEmpty, clientId \in HttpClientIds,
           sendThrows \in BOOLEAN :
            ApiSendMessage(message, clientId, sendThrows)
                => /\ last'.status = 400
                   /\ inbox' = inbox
                   /\ clients' = clients]_vars

\* A request without a message has just been refused while the session it
\* names was registered and open.
C37_Witness ==
    /\ last.op = "http"
    /\ last.result = "messageRequired"
    /\ last.status = 400
    /\ \E ws \in Conns :
        /\ RegisteredIn(clients, ws)
        /\ connKey[ws] = last.id
        /\ readyState[ws] = "OPEN"

====
